---- MODULE Spec2Model ----
(***************************************************************************)
(* The multi-tenant MCP connection manager (McpClientManager) as a state   *)
(* machine.  Every asynchronous method is cut at its await points: one     *)
(* action is the code that runs between two awaits.  Map and entry objects *)
(* keep their identity, because tasks hold references across awaits.       *)
(***************************************************************************)
EXTENDS Integers, Sequences, FiniteSets, TLC

\* ------------------------------------------------------------------ bounds
Tenants == {1, 2}
NameOrder == <<"a", "b">>
Names == {NameOrder[i] : i \in 1..Len(NameOrder)}
Procs == {1, 2}
SeqProcs == {1}
Boot == 0
Tasks == {Boot} \cup Procs
MaxOps == 2
MaxCloseAll == 2
MaxHandles == 2
MaxMessages == 3
MaxMaps == 6
MaxOids == 8
MapIds == 1..MaxMaps
Oids == 1..MaxOids

\* ------------------------------------------------------- configurations
\* an optional field that is absent is "" (args: <<>>, env: {})
NoConfig ==
  [name |-> "", type |-> "-", command |-> "", url |-> "", args |-> <<>>,
   env |-> {}, cwd |-> ""]
NoRow ==
  [type |-> "-", command |-> "", url |-> "", args |-> <<>>, env |-> {}, cwd |-> ""]
StdioJson ==
  [type |-> "stdio", command |-> "run", url |-> "", args |-> <<"-y", "srv">>,
   env |-> {<<"KEY", "v">>}, cwd |-> "/srv"]
HttpJson ==
  [type |-> "http", command |-> "", url |-> "http://ok", args |-> <<>>,
   env |-> {}, cwd |-> ""]
BadUrlJson == [HttpJson EXCEPT !.url = "not a url"]
WsJson == [StdioJson EXCEPT !.type = "ws", !.url = "http://ok"]
NoCommandJson == [StdioJson EXCEPT !.command = ""]
NoUrlJson == [HttpJson EXCEPT !.url = ""]
NoTypeJson == [StdioJson EXCEPT !.type = "", !.url = "http://ok"]

WithName(name, json) ==
  [name |-> name, type |-> json.type, command |-> json.command, url |-> json.url,
   args |-> json.args, env |-> json.env, cwd |-> json.cwd]

\* const { name, ...configDataToStore } = config; JSON.stringify(configDataToStore)
StringifyMut(config) ==
  [type |-> config.type, command |-> config.command, url |-> config.url,
   args |-> <<>>, env |-> {}, cwd |-> ""]

Stringify(config) ==
  [type |-> config.type, command |-> config.command, url |-> config.url,
   args |-> config.args, env |-> config.env, cwd |-> config.cwd]

\* JSON.parse(configJson) then { ...configData, name }
ParseRow(name, json) == WithName(name, json)

\* the configurations a caller hands to addServer
ConfigInputs ==
  {WithName("a", StdioJson), WithName("a", HttpJson), WithName("b", HttpJson),
   WithName("b", BadUrlJson), WithName("a", NoCommandJson), WithName("a", NoUrlJson),
   WithName("a", NoTypeJson), WithName("", HttpJson)}

\* the guard of addServer (and of loadUserConfigsFromDb, which has no name test)
InvalidFieldsMut(config) ==
  \/ config.type = ""
  \/ config.type = "stdio" /\ config.command = ""

InvalidFields(config) ==
  \/ config.type = ""
  \/ config.type = "stdio" /\ config.command = ""
  \/ config.type = "http" /\ config.url = ""

InvalidConfig(config) == config.name = "" \/ InvalidFields(config)

\* new URL(config.url) succeeds
WellFormedUrl(u) == u = "http://ok"

\* process.env: what the host process inherited
ProcessEnv == {<<"KEY", "host">>, <<"PATH", "/bin">>}
EnvKeysOf(env) == {kv[1] : kv \in env}

\* lines 339-356: { ...baseEnv, ...configEnv }, both copied key by key from
\* process.env and config.env (every value there is a string)
StdioEnvMut(base, configEnv) ==
  base \cup {kv \in configEnv : kv[1] \notin EnvKeysOf(base)}

StdioEnv(base, configEnv) ==
  {kv \in base : kv[1] \notin EnvKeysOf(configEnv)} \cup configEnv

\* the transport built for a config, or the reason the build throws
BuildTransportMut(config) ==
  IF config.type = "http"
    THEN IF config.url = "" THEN "err:url"
         ELSE IF WellFormedUrl(config.url) THEN "http" ELSE "err:badurl"
    ELSE IF config.command = "" THEN "err:command" ELSE "stdio"

BuildTransport(config) ==
  IF config.type = "stdio"
    THEN IF config.command = "" THEN "err:command" ELSE "stdio"
    ELSE IF config.type = "http"
      THEN IF config.url = "" THEN "err:url"
           ELSE IF WellFormedUrl(config.url) THEN "http" ELSE "err:badurl"
      ELSE "err:unsupported"

\* ------------------------------------------------------------------ state
VARIABLES
  store,          \* the Store: tenant -> name -> stored JSON (NoRow: no row)
  activeServers,  \* this.activeServers: tenant -> inner Map object (0: no key)
  maps,           \* the inner Map objects: entries in insertion order
  handles,        \* every Client a connect was attempted on
  task,           \* the asynchronous tasks: position and locals
  ops,            \* operations started so far, closeAll apart
  cas,            \* closeAll calls started so far
  out,            \* what the operation that has just completed gave its caller
  proc,           \* the process: running, stopping after a signal, or exited
  chatHistory     \* the chat_history table and the addMessage calls in flight

vars == <<store, activeServers, maps, handles, task, ops, cas, out, proc, chatHistory>>

IdleTask ==
  [op |-> "idle", pc |-> "idle", t |-> 0, n |-> "", cfg |-> NoConfig,
   flag |-> FALSE, m |-> 0, im |-> 0, it |-> 0, oid |-> 0, ecfg |-> NoConfig,
   h |-> 0, db |-> "none", snap |-> <<>>, tools |-> <<>>, decls |-> <<>>,
   cfgs |-> <<>>,
   hs |-> {}, live |-> {}, over |-> 0, log |-> <<>>, pre |-> <<>>]

\* ------------------------------------------------------- Map operations
Has(ms, n) == \E i \in 1..Len(ms) : ms[i].name = n
Pos(ms, n) == CHOOSE i \in 1..Len(ms) : ms[i].name = n
Get(ms, n) == ms[Pos(ms, n)]
KeysOf(ms) == {ms[i].name : i \in 1..Len(ms)}
\* Map.set: an existing key keeps its position, a new key goes last
SetEntry(ms, e) ==
  IF Has(ms, e.name) THEN [ms EXCEPT ![Pos(ms, e.name)] = e] ELSE Append(ms, e)
RemoveAt(ms, i) == SubSeq(ms, 1, i - 1) \o SubSeq(ms, i + 1, Len(ms))

Entry(oid, config, client) ==
  [name |-> config.name, oid |-> oid, config |-> config, client |-> client]

(* A machine state S: what the manager's code reads and writes.  ok turns   *)
(* FALSE when a step would need more objects than the bounds provide.       *)
NoOut ==
  [p |-> 0, op |-> "", t |-> 0, n |-> "", cfg |-> NoConfig, res |-> "",
   tools |-> <<>>, decls |-> <<>>, cfgs |-> <<>>, hs |-> {}, live |-> {},
   log |-> <<>>, pre |-> <<>>]

Mach ==
  [as |-> activeServers, mp |-> maps, tk |-> task, hd |-> handles, ok |-> TRUE,
   out |-> NoOut]

MapRefs(as, tk) ==
  ({as[t] : t \in Tenants} \cup {tk[q].m : q \in Tasks} \cup {tk[q].im : q \in Tasks})
    \ {0}
\* unreachable Map objects are collected
Gc(mp, as, tk) ==
  [i \in MapIds |-> IF i \in MapRefs(as, tk) THEN mp[i] ELSE <<>>]
UsedOids(S) ==
  UNION {{S.mp[i][j].oid : j \in 1..Len(S.mp[i])} : i \in MapIds}
    \cup {S.tk[q].oid : q \in Tasks}
FreeOids(S) == Oids \ UsedOids(S)
FreeMaps(S) == MapIds \ MapRefs(S.as, S.tk)
Least(set) == CHOOSE x \in set : \A y \in set : x <= y

\* { config, client } : a new entry object
NewEntry(S, config, client) ==
  IF FreeOids(S) = {} THEN Entry(0, config, client)
  ELSE Entry(Least(FreeOids(S)), config, client)

\* if (!this.activeServers.has(userId)) this.activeServers.set(userId, new Map())
EnsureMap(S, t) ==
  IF S.as[t] # 0 THEN S
  ELSE IF FreeMaps(S) = {} THEN [S EXCEPT !.ok = FALSE]
  ELSE LET i == Least(FreeMaps(S)) IN
       [S EXCEPT !.as[t] = i, !.mp[i] = <<>>]

\* map.set(name, entry) on the Map object mid
MapSet(S, mid, e) ==
  IF e.oid = 0 THEN [S EXCEPT !.ok = FALSE]
  ELSE [S EXCEPT !.mp[mid] = SetEntry(@, e)]

(* map.delete(name) on the Map object mid.  A live iterator over the Map   *)
(* that has passed the deleted entry keeps its place among the others.     *)
MapDelete(S, mid, n) ==
  IF ~Has(S.mp[mid], n) THEN S
  ELSE LET i == Pos(S.mp[mid], n) IN
       [S EXCEPT !.mp[mid] = RemoveAt(@, i),
                 !.tk = [q \in Tasks |->
                           IF S.tk[q].im = mid /\ S.tk[q].it >= i
                             THEN [S.tk[q] EXCEPT !.it = @ - 1]
                             ELSE S.tk[q]]]

\* serverEntry.client = c, on the entry object oid wherever it is
SetClient(S, oid, c) ==
  [S EXCEPT !.mp = [i \in MapIds |->
     [j \in 1..Len(S.mp[i]) |->
        IF S.mp[i][j].oid = oid THEN [S.mp[i][j] EXCEPT !.client = c]
        ELSE S.mp[i][j]]]]

\* ------------------------------------------------------------- handles
(* A Client that connect was called on: the entry it was made for, the     *)
(* transport it was given, and what has happened to it since.              *)
NewHandle(S, t, config, over) ==
  [t |-> t, n |-> config.name, ctype |-> config.type,
   kind |-> BuildTransport(config), st |-> "connecting", lis |-> FALSE,
   env |-> IF config.type = "stdio" THEN StdioEnv(ProcessEnv, config.env) ELSE {},
   closes |-> 0, byAll |-> 0, evt |-> FALSE, over |-> over,
   race |-> \E k \in 1..Len(S.hd) :
              /\ S.hd[k].t = t /\ S.hd[k].n = config.name
              /\ S.hd[k].st = "connecting"]

\* client.close() is invoked on handle h by `who`
CloseH(S, h, who) ==
  [S EXCEPT !.hd[h].closes = @ + 1,
            !.hd[h].byAll = IF who = "closeAll" THEN @ + 1 ELSE @]

\* the operation of task p returns (or throws) res to its caller
Done(S, p, res) ==
  [S EXCEPT !.tk[p] = IdleTask,
            !.out = [p |-> p, op |-> S.tk[p].op, t |-> S.tk[p].t, n |-> S.tk[p].n,
                     cfg |-> S.tk[p].cfg, res |-> res, tools |-> S.tk[p].tools,
                     decls |-> S.tk[p].decls,
                     cfgs |-> S.tk[p].cfgs, hs |-> S.tk[p].hs, live |-> S.tk[p].live,
                     log |-> S.tk[p].log, pre |-> S.tk[p].pre]]

Commit(S) ==
  /\ S.ok
  /\ activeServers' = S.as
  /\ task' = S.tk
  /\ handles' = S.hd
  /\ maps' = Gc(S.mp, S.as, S.tk)
  /\ out' = S.out

\* ------------------------------------------- connectClientForUser
\* return from connectClientForUser: the caller's await resumes later
CcReturn(S, p, c) ==
  [S EXCEPT !.tk[p].pc = IF S.tk[p].op = "gt" THEN "gt_cc_ret" ELSE "ct_cc_ret",
            !.tk[p].h = c, !.tk[p].ecfg = NoConfig, !.tk[p].m = 0,
            !.tk[p].over = 0]

\* lines 315-376: build the transport and start the connect
CcBuild(S, p) ==
  LET me == S.tk[p] IN
  IF BuildTransport(me.ecfg) \notin {"stdio", "http"}
    THEN CcReturn(SetClient(S, me.oid, 0), p, 0)
  ELSE IF Len(S.hd) >= MaxHandles THEN [S EXCEPT !.ok = FALSE]
  ELSE [S EXCEPT !.hd = Append(@, NewHandle(S, me.t, me.ecfg, me.over)),
                 !.tk[p].pc = "cc_connect", !.tk[p].h = Len(S.hd) + 1]

\* lines 300-312: an entry that holds a client has it closed first
DisposeStale(S, p, e) ==
  [CloseH(S, e.client, "stale") EXCEPT
     !.tk[p].pc = "cc_close", !.tk[p].h = e.client, !.tk[p].oid = e.oid,
     !.tk[p].ecfg = e.config, !.tk[p].over = e.client]

CcHave(S, p, e) ==
  IF e.client # 0 THEN DisposeStale(S, p, e)
  ELSE CcBuild([S EXCEPT !.tk[p].oid = e.oid, !.tk[p].ecfg = e.config,
                         !.tk[p].over = 0], p)

\* lines 260-293: look the entry up, or ask the Store for it
CcEnter(S, p, n) ==
  LET S1 == EnsureMap(S, S.tk[p].t)
      mid == S1.as[S.tk[p].t]
      S2 == [S1 EXCEPT !.tk[p].m = mid, !.tk[p].n = n] IN
  IF ~S1.ok THEN S1
  ELSE IF Has(S2.mp[mid], n) THEN CcHave(S2, p, Get(S2.mp[mid], n))
  ELSE [S2 EXCEPT !.tk[p].pc = "cc_find", !.tk[p].db = "pending"]

CcFindDoneMut(p) ==
  /\ task[p].pc = "cc_find" /\ task[p].db \in {"ok", "fail"}
  /\ LET me == task[p]
         S0 == [Mach EXCEPT !.tk[p].db = "none", !.tk[p].snap = <<>>] IN
     IF me.db = "fail" \/ me.snap = <<>>
       THEN Commit(CcReturn(MapSet(S0, me.m, NewEntry(S0, WithName(me.n, HttpJson), 0)), p, 0))
     ELSE LET e == NewEntry(S0, ParseRow(me.snap[1].n, me.snap[1].json), 0) IN
          Commit(CcHave(MapSet(S0, me.m, e), p, e))
  /\ UNCHANGED <<store, ops, cas, proc, chatHistory>>

\* the findUnique has answered
CcFindDone(p) ==
  /\ task[p].pc = "cc_find" /\ task[p].db \in {"ok", "fail"}
  /\ LET me == task[p]
         S0 == [Mach EXCEPT !.tk[p].db = "none", !.tk[p].snap = <<>>] IN
     IF me.db = "fail" \/ me.snap = <<>> THEN Commit(CcReturn(S0, p, 0))
     ELSE LET e == NewEntry(S0, ParseRow(me.snap[1].n, me.snap[1].json), 0) IN
          Commit(CcHave(MapSet(S0, me.m, e), p, e))
  /\ UNCHANGED <<store, ops, cas, proc, chatHistory>>

\* lines 304-311: the close has settled; a failure is logged and the entry
\* is cleared all the same
StaleClosedMut(S, p, closed) ==
  IF closed THEN CcBuild(SetClient(S, S.tk[p].oid, 0), p) ELSE CcReturn(S, p, 0)

StaleClosed(S, p, closed) == CcBuild(SetClient(S, S.tk[p].oid, 0), p)

\* the close of the stale client has settled (either way)
CcCloseDone(p) ==
  /\ task[p].pc = "cc_close"
  /\ \E closed \in BOOLEAN :
       Commit([StaleClosed(Mach, p, closed) EXCEPT
                 !.out = [NoOut EXCEPT !.op = "staleclose", !.p = p,
                                       !.res = IF closed THEN "closed" ELSE "failed"]])
  /\ UNCHANGED <<store, ops, cas, proc, chatHistory>>

CcConnectDoneMut(p) ==
  /\ task[p].pc = "cc_connect"
  /\ \E connected \in BOOLEAN :
       LET me == task[p] IN
       IF connected
         THEN Commit(CcReturn(
                SetClient([Mach EXCEPT !.hd[me.h].st = "open", !.hd[me.h].lis = TRUE],
                          me.oid, me.h), p, me.h))
         ELSE Commit(CcReturn(
                SetClient([Mach EXCEPT !.hd[me.h].st = "failed"], me.oid, me.h), p, 0))
  /\ UNCHANGED <<store, ops, cas, proc, chatHistory>>

\* client.connect(transport) has settled
CcConnectDone(p) ==
  /\ task[p].pc = "cc_connect"
  /\ \E connected \in BOOLEAN :
       LET me == task[p] IN
       IF connected
         THEN Commit(CcReturn(
                SetClient([Mach EXCEPT !.hd[me.h].st = "open", !.hd[me.h].lis = TRUE],
                          me.oid, me.h), p, me.h))
         ELSE Commit(CcReturn(
                SetClient([Mach EXCEPT !.hd[me.h].st = "failed"], me.oid, 0), p, 0))
  /\ UNCHANGED <<store, ops, cas, proc, chatHistory>>

\* ------------------------------------------------------------ the Store
RECURSIVE RowsOfNames(_, _, _)
RowsOfNames(st, t, i) ==
  IF i > Len(NameOrder) THEN <<>>
  ELSE (IF st[t][NameOrder[i]] = NoRow THEN <<>>
        ELSE <<[t |-> t, n |-> NameOrder[i], json |-> st[t][NameOrder[i]]]>>)
       \o RowsOfNames(st, t, i + 1)

\* findMany({ where: { userId } })
RowsOf(st, t) == RowsOfNames(st, t, 1)

\* findMany() over every user
AllRows(st) == RowsOf(st, 1) \o RowsOf(st, 2)

\* findUnique({ where: { userId_name } })
RowOf(st, t, n) ==
  IF n \notin Names \/ st[t][n] = NoRow THEN <<>> ELSE <<[t |-> t, n |-> n, json |-> st[t][n]]>>

\* the Store serves the request a task is suspended on, or fails it
DbStep(p) ==
  /\ task[p].db = "pending"
  /\ \E served \in BOOLEAN :
       LET me == task[p] IN
       IF ~served
         THEN /\ task' = [task EXCEPT ![p].db = "fail"]
              /\ store' = store
         ELSE /\ task' = [task EXCEPT ![p].db = "ok",
                 ![p].snap = IF me.pc = "ls_find" THEN RowsOf(store, me.t)
                             ELSE IF me.pc = "cc_find" THEN RowOf(store, me.t, me.n)
                             ELSE IF me.pc = "load_find" THEN AllRows(store)
                             ELSE IF me.pc = "uc_find" THEN RowsOf(store, me.t)
                             ELSE <<>>]
              /\ store' = IF me.pc = "add_upsert"
                            THEN [store EXCEPT ![me.t][me.n] = Stringify(me.cfg)]
                          ELSE IF me.pc = "rm_delete"
                            THEN [store EXCEPT ![me.t][me.n] = NoRow]
                          ELSE store
  /\ out' = NoOut
  /\ UNCHANGED <<activeServers, maps, handles, ops, cas, proc, chatHistory>>

\* ------------------------------------------- addServer and removeServer
\* what the Registry holds for (t, n): nothing, or a configuration and a client
EntryView(t, n) ==
  IF activeServers[t] # 0 /\ Has(maps[activeServers[t]], n)
    THEN <<Get(maps[activeServers[t]], n).config, Get(maps[activeServers[t]], n).client>>
    ELSE <<>>

AddInsertMut(S, p) ==
  LET me == S.tk[p] IN
  [MapSet(S, me.m, NewEntry(S, me.cfg, IF me.pre = <<>> THEN 0 ELSE me.pre[2])) EXCEPT
     !.tk[p].pc = "add_upsert", !.tk[p].db = "pending"]

\* lines 119-132: insert the new entry, then ask the Store to upsert
AddInsert(S, p) ==
  LET me == S.tk[p] IN
  [MapSet(S, me.m, NewEntry(S, me.cfg, 0)) EXCEPT
     !.tk[p].pc = "add_upsert", !.tk[p].db = "pending"]

RmDeleteMut(S, p) ==
  LET me == S.tk[p]
      S1 == MapDelete(S, me.m, me.n) IN
  IF me.op = "add" \/ me.flag
    THEN [S1 EXCEPT !.tk[p].pc = "rm_delete", !.tk[p].db = "pending", !.tk[p].h = 0]
  ELSE Done(S1, p, "ok")

\* lines 170-186: delete the entry, then the Store row when asked to
RmDelete(S, p) ==
  LET me == S.tk[p]
      S1 == MapDelete(S, me.m, me.n) IN
  IF me.op = "add" THEN [S1 EXCEPT !.tk[p].pc = "add_rm_ret", !.tk[p].h = 0]
  ELSE IF me.flag
    THEN [S1 EXCEPT !.tk[p].pc = "rm_delete", !.tk[p].db = "pending", !.tk[p].h = 0]
  ELSE Done(S1, p, "ok")

\* lines 156-168: close the entry's client when it has one
RmClose(S, p) ==
  LET me == S.tk[p]
      e == Get(S.mp[me.m], me.n) IN
  IF e.client # 0
    THEN [CloseH(S, e.client, "remove") EXCEPT
            !.tk[p].pc = IF me.op = "add" THEN "add_rm_close" ELSE "rm_close",
            !.tk[p].h = e.client, !.tk[p].hs = {e.client}]
  ELSE RmDelete(S, p)

\* lines 150-154: nothing to do for a name the Registry does not hold
RmAbsent(S, p) == Done(S, p, "ok")

\* lines 104-139: addServer up to its first await
AddServer(p, t, config) ==
  LET S0 == [Mach EXCEPT !.tk[p].op = "add", !.tk[p].t = t,
               !.tk[p].n = config.name, !.tk[p].cfg = config,
               !.tk[p].pre = EntryView(t, config.name)] IN
  IF InvalidConfig(config) THEN Done(S0, p, "ConfigInvalid")
  ELSE LET S1 == EnsureMap(S0, t)
           S2 == [S1 EXCEPT !.tk[p].m = S1.as[t]] IN
       IF ~S1.ok THEN S1
       ELSE IF Has(S2.mp[S2.tk[p].m], config.name) THEN RmClose(S2, p)
       ELSE AddInsert(S2, p)

AddStart(p) ==
  /\ task[p].pc = "idle" /\ ops < MaxOps
  /\ \E t \in Tenants, config \in ConfigInputs : Commit(AddServer(p, t, config))
  /\ ops' = ops + 1
  /\ UNCHANGED <<store, cas, proc, chatHistory>>

RmClosedMut(S, p, closed) ==
  IF closed THEN RmDelete(S, p) ELSE Done(S, p, "CloseFailure")

\* lines 161-167: the close is awaited in a try whose catch only logs
RmClosed(S, p, closed) == RmDelete(S, p)

\* removeServer's close has settled (inside addServer, or on its own)
RmCloseDone(p) ==
  /\ task[p].pc \in {"add_rm_close", "rm_close"}
  /\ \E closed \in BOOLEAN :
       Commit([RmClosed(Mach, p, closed) EXCEPT
                 !.out = [NoOut EXCEPT !.op = "rmclose", !.p = p, !.t = task[p].t,
                                       !.n = task[p].n,
                                       !.res = IF closed THEN "closed" ELSE "failed"]])
  /\ UNCHANGED <<store, ops, cas, proc, chatHistory>>

\* addServer resumes after its inner removeServer
AddRmRet(p) ==
  /\ task[p].pc = "add_rm_ret"
  /\ Commit(AddInsert(Mach, p))
  /\ UNCHANGED <<store, ops, cas, proc, chatHistory>>

\* lines 133-138: the upsert has answered
AddUpsertDone(p) ==
  /\ task[p].pc = "add_upsert" /\ task[p].db \in {"ok", "fail"}
  /\ IF task[p].db = "ok" THEN Commit(Done(Mach, p, "ok"))
     ELSE Commit(Done(MapDelete(Mach, task[p].m, task[p].n), p, "StoreFailure"))
  /\ UNCHANGED <<store, ops, cas, proc, chatHistory>>

\* lines 149-187: removeServer up to its first await
RemoveServer(p, t, n) ==
  LET S0 == [Mach EXCEPT !.tk[p].op = "rm", !.tk[p].t = t, !.tk[p].n = n,
               !.tk[p].flag = TRUE, !.tk[p].m = activeServers[t],
               !.tk[p].live = IF store[t][n] = NoRow THEN {} ELSE {n}] IN
  IF activeServers[t] = 0 \/ ~Has(maps[activeServers[t]], n)
    THEN RmAbsent(S0, p)
    ELSE RmClose(S0, p)

RmStart(p) ==
  /\ task[p].pc = "idle" /\ ops < MaxOps
  /\ \E t \in Tenants, n \in Names : Commit(RemoveServer(p, t, n))
  /\ ops' = ops + 1
  /\ UNCHANGED <<store, cas, proc, chatHistory>>

\* lines 181-185: the deleteMany has answered
RmDeleteDone(p) ==
  /\ task[p].pc = "rm_delete" /\ task[p].db \in {"ok", "fail"}
  /\ Commit(Done(Mach, p, IF task[p].db = "ok" THEN "ok" ELSE "StoreFailure"))
  /\ UNCHANGED <<store, ops, cas, proc, chatHistory>>

\* ---------------------------------------------------------- listServers
NamesIn(rows) == {rows[i].n : i \in 1..Len(rows)}

\* lines 206-222: every Store row becomes a new entry object that keeps the
\* client of the entry it replaces
RECURSIVE LsAdopt(_, _, _, _)
LsAdopt(S, p, rows, i) ==
  IF i > Len(rows) THEN S
  ELSE LET mid == S.tk[p].m
           config == ParseRow(rows[i].n, rows[i].json)
           client == IF Has(S.mp[mid], rows[i].n)
                       THEN Get(S.mp[mid], rows[i].n).client ELSE 0
           S1 == MapSet(S, mid, NewEntry(S, config, client)) IN
       LsAdopt([S1 EXCEPT !.tk[p].cfgs = Append(@, config)], p, rows, i + 1)

\* lines 236-242: publish the Map and return the configurations
LsFinish(S, p) ==
  LET me == S.tk[p] IN
  Done(IF Len(S.mp[me.m]) > 0 \/ S.as[me.t] # 0
         THEN [S EXCEPT !.as[me.t] = me.m] ELSE S,
       p, "ok")

\* lines 225-234: evict the names the Store no longer has; the loop runs
\* until it has to await a close
RECURSIVE LsEvictMut(_, _)
LsEvictMut(S, p) ==
  LET me == S.tk[p]
      ms == S.mp[me.m] IN
  IF me.it >= Len(ms) THEN LsFinish(S, p)
  ELSE LET e == ms[me.it + 1]
           S1 == [S EXCEPT !.tk[p].it = @ + 1] IN
       IF e.name \in NamesIn(me.snap) THEN LsEvictMut(S1, p)
       ELSE LsEvictMut(MapDelete(S1, me.m, e.name), p)

RECURSIVE LsEvict(_, _)
LsEvict(S, p) ==
  LET me == S.tk[p]
      ms == S.mp[me.m] IN
  IF me.it >= Len(ms) THEN LsFinish(S, p)
  ELSE LET e == ms[me.it + 1]
           S1 == [S EXCEPT !.tk[p].it = @ + 1] IN
       IF e.name \in NamesIn(me.snap) THEN LsEvict(S1, p)
       ELSE IF e.client # 0
         THEN [CloseH(S1, e.client, "evict") EXCEPT
                 !.tk[p].pc = "ls_close", !.tk[p].n = e.name, !.tk[p].h = e.client,
                 !.tk[p].hs = @ \cup {e.client}]
       ELSE LsEvict(MapDelete(S1, me.m, e.name), p)

\* pre notes the configuration an addServer of this tenant has just
\* returned from, for comparison with what listServers gives back
LsStart(p) ==
  /\ task[p].pc = "idle" /\ ops < MaxOps
  /\ \E t \in Tenants :
       task' = [task EXCEPT ![p].op = "ls", ![p].t = t, ![p].pc = "ls_find",
                            ![p].db = "pending",
                            ![p].pre = IF out.op = "add" /\ out.res = "ok" /\ out.t = t
                                         THEN <<out.cfg>> ELSE <<>>]
  /\ ops' = ops + 1
  /\ out' = NoOut
  /\ UNCHANGED <<store, activeServers, maps, handles, cas, proc, chatHistory>>

\* lines 202-204 and on: the findMany has answered
LsFindDone(p) ==
  /\ task[p].pc = "ls_find" /\ task[p].db \in {"ok", "fail"}
  /\ LET me == task[p]
         S0 == [Mach EXCEPT !.tk[p].db = "none"] IN
     IF me.db = "fail"
       THEN Commit(Done([S0 EXCEPT !.tk[p].snap = <<>>,
                                   !.tk[p].log = <<<<"", "StoreFailure">>>>], p, "ok"))
     ELSE IF activeServers[me.t] = 0 /\ FreeMaps(S0) = {} THEN FALSE
     ELSE LET mid == IF activeServers[me.t] # 0 THEN activeServers[me.t]
                     ELSE Least(FreeMaps(S0))
              S1 == [S0 EXCEPT !.tk[p].m = mid, !.tk[p].im = mid, !.tk[p].it = 0,
                               !.tk[p].live = NamesIn(me.snap)] IN
          Commit(LsEvict(LsAdopt(S1, p, me.snap, 1), p))
  /\ UNCHANGED <<store, ops, cas, proc, chatHistory>>

\* the close of an evicted client has settled
LsCloseDone(p) ==
  /\ task[p].pc = "ls_close"
  /\ Commit(LsEvict(MapDelete([Mach EXCEPT !.tk[p].h = 0], task[p].m, task[p].n), p))
  /\ UNCHANGED <<store, ops, cas, proc, chatHistory>>

\* ------------------------------------------------ loadUserConfigsFromDb
\* lines 63-89: every valid row becomes a fresh entry with no client
RECURSIVE LoadRows(_, _, _)
LoadRows(S, rows, i) ==
  IF i > Len(rows) THEN S
  ELSE LET config == ParseRow(rows[i].n, rows[i].json) IN
       IF InvalidFields(config) THEN LoadRows(S, rows, i + 1)
       ELSE LET S1 == EnsureMap(S, rows[i].t) IN
            IF ~S1.ok THEN S1
            ELSE LoadRows(MapSet(S1, S1.as[rows[i].t], NewEntry(S1, config, 0)),
                          rows, i + 1)

\* ------------------------------------------------------------- getTools
\* lines 412-437: the next server of the Map, or the end of the catalog
GtLoop(S, p) ==
  LET me == S.tk[p]
      ms == S.mp[me.im] IN
  IF me.it >= Len(ms) THEN Done(S, p, "ok")
  ELSE CcEnter([S EXCEPT !.tk[p].it = @ + 1], p, ms[me.it + 1].name)

\* lines 415-418 and 431-435: a server that fails is skipped
SkipServerMut(S, p) == Done(S, p, "ok")

SkipServer(S, p) == GtLoop(S, p)

GtStart(p) ==
  /\ task[p].pc = "idle" /\ ops < MaxOps
  /\ \E t \in Tenants :
       LET S0 == [Mach EXCEPT !.tk[p].op = "gt", !.tk[p].t = t] IN
       IF activeServers[t] = 0 \/ Len(maps[activeServers[t]]) = 0
         THEN Commit([S0 EXCEPT !.tk[p].pc = "load_find", !.tk[p].db = "pending"])
         ELSE Commit(GtLoop([S0 EXCEPT !.tk[p].im = activeServers[t],
                                       !.tk[p].live = KeysOf(maps[activeServers[t]])],
                            p))
  /\ ops' = ops + 1
  /\ UNCHANGED <<store, cas, proc, chatHistory>>

\* loadUserConfigsFromDb resumes with the rows (or the failure)
LoadDone(p) ==
  /\ task[p].pc = "load_find" /\ task[p].db \in {"ok", "fail"}
  /\ LET me == task[p]
         S0 == [Mach EXCEPT !.tk[p].db = "none", !.tk[p].snap = <<>>]
         S1 == IF me.db = "ok" THEN LoadRows(S0, me.snap, 1) ELSE S0 IN
     IF p = Boot THEN Commit([S1 EXCEPT !.tk[p].pc = "finished"])
     ELSE Commit([S1 EXCEPT !.tk[p].pc = "gt_load_ret",
                            !.tk[p].pre = <<"reload", me.db>>])
  /\ UNCHANGED <<store, ops, cas, proc, chatHistory>>

GtLoadRetMut(p) ==
  /\ task[p].pc = "gt_load_ret"
  /\ Commit(Done(Mach, p, "ok"))
  /\ UNCHANGED <<store, ops, cas, proc, chatHistory>>

\* lines 399-404: getTools resumes after the reload
GtLoadRet(p) ==
  /\ task[p].pc = "gt_load_ret"
  /\ LET t == task[p].t IN
     IF activeServers[t] = 0 \/ Len(maps[activeServers[t]]) = 0
       THEN Commit(Done(Mach, p, "ok"))
       ELSE Commit(GtLoop([Mach EXCEPT !.tk[p].im = activeServers[t],
                                       !.tk[p].live = KeysOf(maps[activeServers[t]])],
                          p))
  /\ UNCHANGED <<store, ops, cas, proc, chatHistory>>

\* lines 414-421: getToolsFromMap resumes with the client, or with null
GtCcRet(p) ==
  /\ task[p].pc = "gt_cc_ret"
  /\ IF task[p].h = 0
       THEN Commit(SkipServer(
              [Mach EXCEPT !.tk[p].oid = 0,
                           !.tk[p].log = Append(@, <<task[p].n, "unavailable">>)], p))
       ELSE Commit([Mach EXCEPT !.tk[p].oid = 0, !.tk[p].pc = "gt_list"])
  /\ UNCHANGED <<store, ops, cas, proc, chatHistory>>

\* ------------------------------------------------------------- callTool
\* Names are sequences of characters here, so that they can be split.
\* `${tool.name}_${serverName}`: the name the catalog gives a tool
Encode(tool, server) == tool \o <<"_">> \o server

\* geminiToolName.split('_')
RECURSIVE Split(_)
Split(cs) ==
  IF \A i \in 1..Len(cs) : cs[i] # "_" THEN <<cs>>
  ELSE LET k == CHOOSE i \in 1..Len(cs) :
                  cs[i] = "_" /\ \A j \in 1..(i - 1) : cs[j] # "_" IN
       <<SubSeq(cs, 1, k - 1)>> \o Split(SubSeq(cs, k + 1, Len(cs)))

\* parts.join('_')
RECURSIVE Join(_)
Join(parts) ==
  IF parts = <<>> THEN <<>>
  ELSE IF Len(parts) = 1 THEN parts[1]
  ELSE parts[1] \o <<"_">> \o Join(Tail(parts))

\* parts.pop(): the last segment is the server name
ServerOf(parts) == parts[Len(parts)]

\* the segments left after the pop, joined again
ToolOfMut(parts) == parts[1]

ToolOf(parts) == Join(SubSeq(parts, 1, Len(parts) - 1))

\* the characters of a name as one string
RECURSIVE Str(_)
Str(cs) == IF cs = <<>> THEN "" ELSE cs[1] \o Str(Tail(cs))

\* ------------------------------------------------- the function catalog
\* An optional value is <<>> when it is undefined and <<v>> when it is v; a
\* missing type and a missing description are "".  A JSON value of an enum is
\* a string or a number.
JsonString(s) == [kind |-> "string", s |-> s, n |-> 0]
JsonNumber(n) == [kind |-> "number", s |-> "", n |-> n]
Digits == <<"0", "1", "2", "3">>
\* String(value)
JsString(v) == IF v.kind = "string" THEN v.s ELSE Digits[v.n + 1]

\* mapJsonSchemaTypeToGeminiType: the switch and its default
MapJsonSchemaTypeToGeminiTypeMut(schemaType) ==
  IF schemaType = "string" THEN "STRING"
  ELSE IF schemaType = "number" THEN "NUMBER"
  ELSE IF schemaType = "integer" THEN "NUMBER"
  ELSE IF schemaType = "boolean" THEN "BOOLEAN"
  ELSE IF schemaType = "array" THEN "ARRAY"
  ELSE IF schemaType = "object" THEN "OBJECT"
  ELSE "STRING"

MapJsonSchemaTypeToGeminiType(schemaType) ==
  IF schemaType = "string" THEN "STRING"
  ELSE IF schemaType = "number" THEN "NUMBER"
  ELSE IF schemaType = "integer" THEN "INTEGER"
  ELSE IF schemaType = "boolean" THEN "BOOLEAN"
  ELSE IF schemaType = "array" THEN "ARRAY"
  ELSE IF schemaType = "object" THEN "OBJECT"
  ELSE "STRING"

\* Array.isArray(schema.enum) ? schema.enum.map(String) : undefined
MapEnum(enum) ==
  IF enum = <<>> THEN <<>>
  ELSE <<[i \in 1..Len(enum[1]) |-> JsonString(JsString(enum[1][i]))]>>

\* the value given to one property, and to the items of an array
MapSubSchema(schema) ==
  [type |-> MapJsonSchemaTypeToGeminiType(schema.type),
   description |-> schema.description, enum |-> MapEnum(schema.enum)]

\* mapJsonSchemaPropertiesToGeminiParameterProps: key by key, in order
MapJsonSchemaPropertiesToGeminiParameterProps(properties) ==
  [i \in 1..Len(properties) |->
     [key |-> properties[i].key, value |-> MapSubSchema(properties[i].schema[1])]]

\* lines 117-141: the parameters of the declaration; an empty required and
\* an empty enum are deleted
MapParametersMut(inputSchema) ==
  [type |-> MapJsonSchemaTypeToGeminiType(inputSchema.type),
   description |-> inputSchema.description,
   required |-> IF inputSchema.required = <<>> THEN <<<<>>>> ELSE inputSchema.required,
   enum |-> MapEnum(inputSchema.enum),
   properties |->
     IF inputSchema.type = "object" /\ inputSchema.properties # <<>>
       THEN <<MapJsonSchemaPropertiesToGeminiParameterProps(inputSchema.properties[1])>>
       ELSE <<>>,
   items |-> IF inputSchema.type = "array" /\ inputSchema.items # <<>>
               THEN <<MapSubSchema(inputSchema.items[1])>> ELSE <<>>]

MapParameters(inputSchema) ==
  LET required == IF inputSchema.required = <<>> THEN <<<<>>>>
                  ELSE inputSchema.required
      enum == MapEnum(inputSchema.enum) IN
  [type |-> MapJsonSchemaTypeToGeminiType(inputSchema.type),
   description |-> inputSchema.description,
   required |-> IF required[1] = <<>> THEN <<>> ELSE required,
   enum |-> IF enum # <<>> /\ enum[1] = <<>> THEN <<>> ELSE enum,
   properties |->
     IF inputSchema.type = "object" /\ inputSchema.properties # <<>>
       THEN <<MapJsonSchemaPropertiesToGeminiParameterProps(inputSchema.properties[1])>>
       ELSE <<>>,
   items |-> IF inputSchema.type = "array" /\ inputSchema.items # <<>>
               THEN <<MapSubSchema(inputSchema.items[1])>> ELSE <<>>]

\* reading a member of undefined or null throws: a tool without an input
\* schema, or an object schema with a null property
MappingThrows(tool) ==
  \/ tool.inputSchema = <<>>
  \/ /\ tool.inputSchema[1].type = "object" /\ tool.inputSchema[1].properties # <<>>
     /\ \E i \in 1..Len(tool.inputSchema[1].properties[1]) :
          tool.inputSchema[1].properties[1][i].schema = <<>>

\* lines 152-159: the entry returned from the catch
MappingError(tool, serverName) ==
  [name |-> Str(Encode(tool.name, <<serverName>>)) \o "_mapping_error",
   description |-> "Error mapping tool: " \o Str(tool.name),
   parameters |-> [type |-> "OBJECT", description |-> "", required |-> <<>>,
                   enum |-> <<>>, properties |-> << <<>> >>, items |-> <<>>]]

\* mapMcpToolToGeminiFunctionDeclaration
MapMcpToolToGeminiFunctionDeclaration(tool, serverName) ==
  IF MappingThrows(tool) THEN MappingError(tool, serverName)
  ELSE [name |-> Str(Encode(tool.name, <<serverName>>)),
        description |-> IF tool.description = "" THEN "No description provided."
                        ELSE tool.description,
        parameters |-> MapParameters(tool.inputSchema[1])]

\* lines 424-429: mcpTools.map(tool => ...)
MapToolsMut(mcpTools, serverName) ==
  IF \E i \in 1..Len(mcpTools) : MappingThrows(mcpTools[i]) THEN <<>>
  ELSE [i \in 1..Len(mcpTools) |->
          MapMcpToolToGeminiFunctionDeclaration(mcpTools[i], serverName)]

MapTools(mcpTools, serverName) ==
  [i \in 1..Len(mcpTools) |->
     MapMcpToolToGeminiFunctionDeclaration(mcpTools[i], serverName)]

\* the tool each server lists, and the function calls the model hands back:
\* the catalog's name of a tool of a server, or a name with no server part
ToolOn(n) == IF n = "a" THEN <<"s">> ELSE <<"l", "_", "f">>
\* client.listTools(): the tools a server declares.  Server "a" declares a
\* tool with an object schema and a tool with no input schema, server "b" a
\* tool with an array schema.
SearchSchema ==
  [type |-> "object", description |-> "", required |-> << <<"q">> >>, enum |-> <<>>,
   properties |->
     << << [key |-> "q",
            schema |-> <<[type |-> "string", description |-> "query", enum |-> <<>>]>>],
           [key |-> "k",
            schema |-> <<[type |-> "null", description |-> "",
                          enum |-> << <<JsonNumber(1), JsonString("x")>> >>]>>] >> >>,
   items |-> <<>>]
ListSchema ==
  [type |-> "array", description |-> "ids", required |-> <<>>,
   enum |-> << <<JsonNumber(2), JsonString("x")>> >>,
   properties |-> <<>>,
   items |-> <<[type |-> "integer", description |-> "",
                enum |-> << <<JsonNumber(2)>> >>]>>]
ListTools(n) ==
  IF n = "a"
    THEN <<[name |-> ToolOn(n), description |-> "search", inputSchema |-> <<SearchSchema>>],
           [name |-> <<"x">>, description |-> "", inputSchema |-> <<>>]>>
    ELSE <<[name |-> ToolOn(n), description |-> "", inputSchema |-> <<ListSchema>>]>>
\* lines 421-435: client.listTools() has settled
GtListDone(p) ==
  /\ task[p].pc = "gt_list"
  /\ \E listed \in BOOLEAN :
       IF listed
         THEN Commit(GtLoop(
                [Mach EXCEPT !.tk[p].tools = Append(@, task[p].n), !.tk[p].h = 0,
                             !.tk[p].decls =
                               @ \o MapTools(ListTools(task[p].n), task[p].n),
                             !.tk[p].log = Append(@, <<task[p].n, "listed">>)], p))
         ELSE Commit(SkipServer(
                [Mach EXCEPT !.tk[p].h = 0,
                             !.tk[p].log = Append(@, <<task[p].n, "listfail">>)], p))
  /\ UNCHANGED <<store, ops, cas, proc, chatHistory>>

ToolCalls ==
  {[tool |-> ToolOn(n), server |-> n, name |-> Encode(ToolOn(n), <<n>>)] : n \in Names}
    \cup {[tool |-> <<>>, server |-> "", name |-> <<"s">>]}

\* if (parts.length < 2) throw
BadFormatMut(parts) == Len(parts) < 1

BadFormat(parts) == Len(parts) < 2

\* pre notes the tool and the server the called name was made from, and the
\* called name
CtStart(p) ==
  /\ task[p].pc = "idle" /\ ops < MaxOps
  /\ \E t \in Tenants, call \in ToolCalls :
       LET parts == Split(call.name)
           S0 == [Mach EXCEPT !.tk[p].op = "ct", !.tk[p].t = t,
                              !.tk[p].pre = <<Str(call.tool), call.server, call.name>>] IN
       IF BadFormat(parts) THEN Commit(Done(S0, p, "InvalidToolNameFormat"))
       ELSE Commit(CcEnter([S0 EXCEPT !.tk[p].tools = <<Str(ToolOf(parts))>>], p,
                           Str(ServerOf(parts))))
  /\ ops' = ops + 1
  /\ UNCHANGED <<store, cas, proc, chatHistory>>

\* lines 461-470: callTool resumes with the client, or with null
CtCcRet(p) ==
  /\ task[p].pc = "ct_cc_ret"
  /\ IF task[p].h = 0 THEN Commit(Done(Mach, p, "ServerUnavailable"))
     ELSE Commit([Mach EXCEPT !.tk[p].oid = 0, !.tk[p].pc = "ct_call",
                              !.tk[p].hs = {task[p].h}])
  /\ UNCHANGED <<store, ops, cas, proc, chatHistory>>

\* what client.callTool() does: it resolves with a result, with a result
\* that has isError set, or it rejects
RemoteOutcomes == {"result", "isError", "throws"}

\* lines 468-476: return result, or catch and throw the tool-call failure
CallResultMut(remote) == IF remote = "result" THEN "result" ELSE "ToolCallFailed"

CallResult(remote) == IF remote = "throws" THEN "ToolCallFailed" ELSE remote

\* lines 470-476: client.callTool() has settled; log notes how
CtCallDone(p) ==
  /\ task[p].pc = "ct_call"
  /\ \E remote \in RemoteOutcomes :
       Commit(Done([Mach EXCEPT !.tk[p].log = <<<<task[p].n, remote>>>>], p,
                   CallResult(remote)))
  /\ UNCHANGED <<store, ops, cas, proc, chatHistory>>

\* ------------------------------------------------------------- closeAll
\* the handles the entries of the published Maps hold
LiveClients ==
  {c \in 1..Len(handles) :
     \E t \in Tenants : activeServers[t] # 0 /\
       \E j \in 1..Len(maps[activeServers[t]]) : maps[activeServers[t]][j].client = c}

\* lines 487-498, for the entries j.. of one inner Map
RECURSIVE SweepMapMut(_, _, _)
SweepMapMut(S, mid, j) ==
  IF j > Len(S.mp[mid]) THEN S
  ELSE LET c == S.mp[mid][j].client IN
       IF c = 0 THEN SweepMapMut(S, mid, j + 1)
       ELSE SweepMapMut(CloseH(S, c, "closeAll"), mid, j + 1)

RECURSIVE SweepMap(_, _, _)
SweepMap(S, mid, j) ==
  IF j > Len(S.mp[mid]) THEN S
  ELSE LET c == S.mp[mid][j].client IN
       IF c = 0 THEN SweepMap(S, mid, j + 1)
       ELSE SweepMap([CloseH(S, c, "closeAll") EXCEPT !.mp[mid][j].client = 0],
                     mid, j + 1)

RECURSIVE SweepFrom(_, _)
SweepFrom(S, t) ==
  IF t \notin Tenants THEN S
  ELSE SweepFrom(IF S.as[t] = 0 THEN S ELSE SweepMap(S, S.as[t], 1), t + 1)

\* lines 485-499: close every client and clear it at once
SweepMut(S) == SweepFrom(S, 2)

Sweep(S) == SweepFrom(S, 1)

CaBegin(p) ==
  /\ task[p].pc = "idle" /\ cas < MaxCloseAll
  /\ LET S0 == [Mach EXCEPT !.tk[p].op = "ca", !.tk[p].pc = "ca_wait",
                            !.tk[p].live = LiveClients]
         S1 == Sweep(S0) IN
     Commit([S1 EXCEPT !.tk[p].hs =
               {c \in 1..Len(handles) : S1.hd[c].closes > handles[c].closes}])
  /\ cas' = cas + 1
  /\ UNCHANGED <<store, ops, chatHistory>>

CaStart(p) == CaBegin(p) /\ UNCHANGED proc

\* lines 500-502: every close has settled; clear the Registry
CaDone(p) ==
  /\ task[p].pc = "ca_wait"
  /\ \E failed \in SUBSET task[p].hs :
       Commit(Done([Mach EXCEPT !.as = [t \in Tenants |-> 0], !.tk[p].hs = failed],
                   p, "ok"))
  /\ UNCHANGED <<store, ops, cas, proc, chatHistory>>

\* ---------------------------------------------- the configuration storage
\* McpConfigStorage.deleteUserMcpConfig: the DELETE route deletes the row
\* itself, before it calls removeServer
DeleteUserMcpConfig(t, n) ==
  /\ store[t][n] # NoRow
  /\ store' = [store EXCEPT ![t][n] = NoRow]
  /\ out' = NoOut
  /\ UNCHANGED <<activeServers, maps, handles, task, ops, cas, proc, chatHistory>>

\* ------------------------------------------------------ handle events
\* lines 535-542: client.onerror
OnError(h) ==
  /\ h \in 1..Len(handles) /\ handles[h].lis /\ ~handles[h].evt
  /\ LET t == handles[h].t
         n == handles[h].n IN
     /\ activeServers[t] # 0 /\ Has(maps[activeServers[t]], n)
     /\ Get(maps[activeServers[t]], n).client # 0
     /\ maps' = [maps EXCEPT ![activeServers[t]][Pos(maps[activeServers[t]], n)].client = 0]
  /\ out' = [NoOut EXCEPT !.op = "onerror", !.hs = {h}]
  /\ UNCHANGED <<store, activeServers, handles, task, ops, cas, proc, chatHistory>>

\* lines 545-554: client.onclose
OnCloseMut(h) ==
  /\ h \in 1..Len(handles) /\ handles[h].lis /\ ~handles[h].evt
  /\ handles' = [handles EXCEPT ![h].evt = TRUE]
  /\ out' = [NoOut EXCEPT !.op = "onclose", !.hs = {h}]
  /\ UNCHANGED <<store, activeServers, maps, task, ops, cas, proc, chatHistory>>

OnClose(h) ==
  /\ h \in 1..Len(handles) /\ handles[h].lis /\ ~handles[h].evt
  /\ LET t == handles[h].t
         n == handles[h].n IN
     /\ handles' = [handles EXCEPT ![h].evt = TRUE]
     /\ maps' = IF activeServers[t] # 0 /\ Has(maps[activeServers[t]], n)
                   /\ Get(maps[activeServers[t]], n).client = h
                  THEN [maps EXCEPT
                          ![activeServers[t]][Pos(maps[activeServers[t]], n)].client = 0]
                  ELSE maps
  /\ out' = [NoOut EXCEPT !.op = "onclose", !.hs = {h}]
  /\ UNCHANGED <<store, activeServers, task, ops, cas, proc, chatHistory>>

\* ------------------------------------------------------ the process
\* what a request carries: the initData (absent, or a hash and a user
\* parameter), a user id stated outside it, the route and its payload
NoUser == [kind |-> "absent", id |-> 0]
NoInitData == [given |-> FALSE, hash |-> "none", user |-> NoUser]
NoRequest ==
  [initData |-> NoInitData, userId |-> 0, route |-> "", body |-> NoConfig,
   serverName |-> ""]

\* index.ts: the process serves until a signal stops it.  req and reqs are
\* the request the web server received last and how many it has received,
\* nexts how many times the middleware called next() for it.
Running ==
  [st |-> "running", reason |-> "", web |-> "open", timer |-> "off", code |-> -1,
   req |-> NoRequest, reqs |-> 0, nexts |-> 0]

Signals == {"SIGINT", "SIGTERM"}
\* the task of the web server's close callback and the task of the timer
CloseCallback == 1
ForceTimer == 2

\* gracefulStop: the bot is stopped, the web server is asked to close and the
\* five-second timer is armed.  No request is in flight when the signal comes.
GracefulStop(reason) ==
  /\ proc.st = "running"
  /\ \A p \in Procs : task[p].pc = "idle"
  /\ proc' = [proc EXCEPT !.st = "stopping", !.reason = reason, !.web = "closing",
                          !.timer = "armed"]
  /\ out' = NoOut
  /\ UNCHANGED <<store, activeServers, maps, handles, task, ops, cas, chatHistory>>

\* the web server has closed: its callback starts closeAll and waits for it
WebServerClosed ==
  /\ proc.st = "stopping" /\ proc.web = "closing"
  /\ CaBegin(CloseCallback)
  /\ proc' = [proc EXCEPT !.web = "closed"]

\* five seconds have passed: the timer's callback starts closeAll and waits
\* for it
TimerFired ==
  /\ proc.st = "stopping" /\ proc.timer = "armed"
  /\ CaBegin(ForceTimer)
  /\ proc' = [proc EXCEPT !.timer = "fired"]

\* the closeAll this callback waited for has returned
Returned(p) ==
  /\ task[p].pc = "idle"
  /\ IF p = CloseCallback THEN proc.web = "closed" ELSE proc.timer = "fired"

ExitCode(p) == IF p = CloseCallback THEN 0 ELSE 1

\* the callback goes on after closeAll: closeDb, then process.exit
Exit(p) ==
  /\ proc.st = "stopping" /\ Returned(p)
  /\ proc' = [proc EXCEPT !.st = "exited", !.code = ExitCode(p)]
  /\ out' = NoOut
  /\ UNCHANGED <<store, activeServers, maps, handles, task, ops, cas, chatHistory>>

\* ------------------------------------------------------------ the web API
\* initData signed by Telegram for the user with this id
SignedFor(id) == [given |-> TRUE, hash |-> "good", user |-> [kind |-> "object", id |-> id]]
InitDatas ==
  {NoInitData, SignedFor(1), SignedFor(2), SignedFor(0),
   [SignedFor(1) EXCEPT !.hash = "bad"], [SignedFor(2) EXCEPT !.hash = "none"],
   [SignedFor(1) EXCEPT !.user = NoUser],
   [SignedFor(1) EXCEPT !.user = [kind |-> "unparsable", id |-> 0]]}
Requests ==
  {[initData |-> i, userId |-> u, route |-> "POST /api/mcps", body |-> b,
    serverName |-> ""] : i \in InitDatas, u \in Tenants, b \in ConfigInputs}
  \cup {[initData |-> i, userId |-> u, route |-> "DELETE /api/mcps", body |-> NoConfig,
         serverName |-> n] : i \in InitDatas, u \in Tenants, n \in Names}
  \cup {[initData |-> i, userId |-> u, route |-> "GET /api/user_config",
         body |-> NoConfig, serverName |-> ""] : i \in InitDatas, u \in Tenants}

\* index.ts refuses to start without BOT_TOKEN
BotTokenSet == TRUE
AdminUserIds == {1}

\* isValidTelegramAuth: the hash is checked and the user parameter parsed
IsValidTelegramAuthMut(initData) ==
  IF ~initData.given \/ ~BotTokenSet THEN [isValid |-> FALSE, user |-> NoUser]
  ELSE IF initData.user.kind = "unparsable" THEN [isValid |-> FALSE, user |-> NoUser]
  ELSE [isValid |-> TRUE, user |-> initData.user]

IsValidTelegramAuth(initData) ==
  IF ~initData.given \/ ~BotTokenSet THEN [isValid |-> FALSE, user |-> NoUser]
  ELSE IF initData.hash = "none" THEN [isValid |-> FALSE, user |-> NoUser]
  ELSE IF initData.user.kind = "unparsable" THEN [isValid |-> FALSE, user |-> NoUser]
  ELSE [isValid |-> initData.hash = "good", user |-> initData.user]

\* validateTelegramInitDataMiddleware: answer 401 or 500, or attach the
\* user id and the admin status and go on to the handler
ValidateTelegramInitData(initData) ==
  IF ~initData.given THEN [status |-> "401", userId |-> 0, isAdmin |-> FALSE]
  ELSE IF ~BotTokenSet THEN [status |-> "500", userId |-> 0, isAdmin |-> FALSE]
  ELSE LET auth == IsValidTelegramAuth(initData) IN
       IF ~auth.isValid \/ auth.user.kind # "object" \/ auth.user.id = 0
         THEN [status |-> "401", userId |-> 0, isAdmin |-> FALSE]
       ELSE [status |-> "next", userId |-> auth.user.id,
             isAdmin |-> auth.user.id \in AdminUserIds]

\* MCPConfigSchema.safeParse succeeds
SchemaOk(body) ==
  /\ body.name # ""
  /\ body.type \in {"stdio", "http"}
  /\ body.url = "" \/ WellFormedUrl(body.url)
  /\ body.type = "stdio" => body.command # ""
  /\ body.type = "http" => body.url # ""

\* the permission check for stdio
StdioDeniedMut(body, isAdmin) == FALSE

StdioDenied(body, isAdmin) == body.type = "stdio" /\ ~isAdmin

\* the request is answered without the handler suspending
Respond(p, status) ==
  [Mach EXCEPT !.out = [NoOut EXCEPT !.p = p, !.op = "api", !.res = status]]

\* POST /api/mcps
PostMcps(p, req, userId, isAdmin) ==
  IF ~SchemaOk(req.body) THEN Respond(p, "400")
  ELSE IF StdioDenied(req.body, isAdmin) THEN Respond(p, "403")
  ELSE AddServer(p, userId, req.body)

\* DELETE /api/mcps/:serverName
DeleteMcps(p, req, userId) ==
  IF req.serverName = "" THEN Respond(p, "400")
  ELSE RemoveServer(p, userId, req.serverName)

\* GET /api/user_config: the user's rows are read from the Store
GetUserConfig(p, userId) ==
  [Mach EXCEPT !.tk[p].op = "uc", !.tk[p].t = userId, !.tk[p].pc = "uc_find",
               !.tk[p].db = "pending"]

\* the user the handlers act for: req.telegramUserId
UserIdOf(req, gate) == gate.userId

\* the calls of next() the middleware makes: none when it answers itself,
\* two in a row when the initData is valid
NextCalls(gate) == IF gate.status = "next" THEN 2 ELSE 0

\* a request arrives: the middleware, then the handler up to its first await
Api(p) ==
  /\ task[p].pc = "idle" /\ ops < MaxOps
  /\ \E req \in Requests :
       LET gate == ValidateTelegramInitData(req.initData)
           userId == UserIdOf(req, gate) IN
       /\ Commit(IF gate.status # "next" THEN Respond(p, gate.status)
                 ELSE IF req.route = "POST /api/mcps"
                   THEN PostMcps(p, req, userId, gate.isAdmin)
                 ELSE IF req.route = "DELETE /api/mcps"
                   THEN DeleteMcps(p, req, userId)
                 ELSE GetUserConfig(p, userId))
       /\ proc' = [proc EXCEPT !.req = req, !.reqs = @ + 1,
                                !.nexts = NextCalls(gate)]
  /\ ops' = ops + 1
  /\ UNCHANGED <<store, cas, chatHistory>>

\* GET /api/user_config: the Store has answered
UserConfigDone(p) ==
  /\ task[p].pc = "uc_find" /\ task[p].db \in {"ok", "fail"}
  /\ Commit(Done([Mach EXCEPT !.tk[p].db = "none", !.tk[p].snap = <<>>,
                              !.tk[p].live = NamesIn(task[p].snap)],
                 p, IF task[p].db = "ok" THEN "200" ELSE "500"))
  /\ UNCHANGED <<store, ops, cas, proc, chatHistory>>

\* ------------------------------------------------- the chat history
\* ConversationManager.addMessage.  rows are the rows of chat_history in the
\* order of their insertion; unique says whether the table carries
\* UNIQUE(chat_id, message_index), as the sqlite schema does.
Chats == {1, 2}
NoCall == [pc |-> "idle", chatId |-> 0, nextIndex |-> 0, res |-> ""]
NoHistory ==
  [rows |-> <<>>, unique |-> TRUE, calls |-> [p \in Procs |-> NoCall], started |-> 0]

IndicesOf(rows, chatId) ==
  {rows[i].messageIndex : i \in {k \in 1..Len(rows) : rows[k].chatId = chatId}}

\* ORDER BY message_index DESC LIMIT 1, then lastMessage ? index + 1 : 0
NextIndex(rows, chatId) ==
  IF IndicesOf(rows, chatId) = {} THEN 0
  ELSE 1 + CHOOSE m \in IndicesOf(rows, chatId) :
             \A k \in IndicesOf(rows, chatId) : k <= m

\* addMessage is called: the read of the last index is sent
AmStart(p) ==
  /\ chatHistory.calls[p].pc = "idle" /\ chatHistory.started < MaxMessages
  /\ \E chatId \in Chats :
       chatHistory' = [chatHistory EXCEPT
                         !.calls[p] = [NoCall EXCEPT !.pc = "am_find", !.chatId = chatId],
                         !.started = @ + 1]
  /\ UNCHANGED <<store, activeServers, maps, handles, task, ops, cas, out, proc>>

\* the read has answered: the insert of last + 1 is sent
AmFindDone(p) ==
  /\ chatHistory.calls[p].pc = "am_find"
  /\ chatHistory' = [chatHistory EXCEPT
                       !.calls[p].pc = "am_create",
                       !.calls[p].nextIndex =
                         NextIndex(chatHistory.rows, chatHistory.calls[p].chatId)]
  /\ UNCHANGED <<store, activeServers, maps, handles, task, ops, cas, out, proc>>

\* the insert has answered: the row is stored, or the table refuses it and
\* addMessage rethrows
AmCreateDone(p) ==
  /\ chatHistory.calls[p].pc = "am_create"
  /\ LET me == chatHistory.calls[p] IN
     IF chatHistory.unique /\ me.nextIndex \in IndicesOf(chatHistory.rows, me.chatId)
       THEN chatHistory' = [chatHistory EXCEPT
                              !.calls[p].pc = "idle", !.calls[p].res = "UniqueViolation"]
       ELSE chatHistory' = [chatHistory EXCEPT
                              !.calls[p].pc = "idle", !.calls[p].res = "ok",
                              !.rows = Append(@, [chatId |-> me.chatId,
                                                  messageIndex |-> me.nextIndex])]
  /\ UNCHANGED <<store, activeServers, maps, handles, task, ops, cas, out, proc>>

\* ---------------------------------------------------- the specification
EmptyStore == [t \in Tenants |-> [n \in Names |-> NoRow]]
\* two servers for tenant 1 and one for tenant 2, all of them connectable
PlainStore ==
  [EmptyStore EXCEPT ![1]["a"] = StdioJson, ![1]["b"] = HttpJson, ![2]["a"] = HttpJson]
\* rows that no transport can be built for
BrokenStore ==
  [EmptyStore EXCEPT ![1]["a"] = NoCommandJson, ![1]["b"] = WsJson,
                     ![2]["a"] = BadUrlJson, ![2]["b"] = NoUrlJson]
InitStores == {EmptyStore, PlainStore, BrokenStore}

\* the constructor has run: the Registry is empty and the first load is
\* waiting for the Store
InitWith(stores) ==
  /\ store \in stores
  /\ activeServers = [t \in Tenants |-> 0]
  /\ maps = [i \in MapIds |-> <<>>]
  /\ handles = <<>>
  /\ task = [q \in Tasks |->
               IF q = Boot
                 THEN [IdleTask EXCEPT !.op = "boot", !.pc = "load_find", !.db = "pending"]
                 ELSE IdleTask]
  /\ ops = 0
  /\ cas = 0
  /\ out = NoOut
  /\ proc = Running
  /\ chatHistory = NoHistory

Init == InitWith(InitStores)

\* the first load has answered: it has adopted the rows of the Store, or it
\* has failed and left the Registry empty
EmptyMach ==
  [as |-> [t \in Tenants |-> 0], mp |-> [i \in MapIds |-> <<>>],
   tk |-> [q \in Tasks |-> IdleTask], hd |-> <<>>, ok |-> TRUE, out |-> NoOut]

InitLoadedWith(stores, histories) ==
  /\ store \in stores
  /\ \E loaded \in BOOLEAN :
       LET S == IF loaded THEN LoadRows(EmptyMach, AllRows(store), 1) ELSE EmptyMach IN
       /\ activeServers = S.as
       /\ maps = S.mp
  /\ handles = <<>>
  /\ task = [q \in Tasks |->
               IF q = Boot THEN [IdleTask EXCEPT !.op = "boot", !.pc = "finished"]
               ELSE IdleTask]
  /\ ops = 0
  /\ cas = 0
  /\ out = NoOut
  /\ proc = Running
  /\ chatHistory \in histories

InitLoaded(stores) == InitLoadedWith(stores, {NoHistory})

\* ------------------------------------------------------------ the steps
AddSteps(p) == AddStart(p) \/ AddRmRet(p) \/ AddUpsertDone(p)
RmSteps(p) == RmStart(p) \/ RmCloseDone(p) \/ RmDeleteDone(p)
LsSteps(p) == LsStart(p) \/ LsFindDone(p) \/ LsCloseDone(p)
GtSteps(p) == GtStart(p) \/ GtLoadRet(p) \/ GtCcRet(p) \/ GtListDone(p)
CtSteps(p) == CtStart(p) \/ CtCcRet(p) \/ CtCallDone(p)
CcSteps(p) == CcFindDone(p) \/ CcCloseDone(p) \/ CcConnectDone(p)
CaSteps(p) == CaStart(p) \/ CaDone(p)

\* the Store and the events of the handles
Env ==
  \/ \E q \in Tasks : DbStep(q)
  \/ \E h \in 1..MaxHandles : OnError(h) \/ OnClose(h)

\* every operation, the operations of the two tasks and the first load
\* overlapping
Next ==
  \/ \E p \in Procs :
       \/ AddSteps(p) \/ RmSteps(p) \/ LsSteps(p) \/ GtSteps(p) \/ CtSteps(p)
       \/ CcSteps(p) \/ CaSteps(p)
  \/ \E q \in Tasks : LoadDone(q)
  \/ Env
Spec == Init /\ [][Next]_vars

\* one operation at a time, the first load included.  Taken one at a time,
\* no operation leaves a client on an entry whose row the Store has lost, so
\* listServers never has a close to wait for.
NextSeq ==
  \/ \E p \in SeqProcs :
       \/ AddSteps(p) \/ RmSteps(p) \/ LsStart(p) \/ LsFindDone(p)
       \/ GtSteps(p) \/ CtSteps(p) \/ CcSteps(p) \/ CaSteps(p)
  \/ \E q \in Tasks : LoadDone(q)
  \/ Env
SpecSeq == InitLoaded(InitStores) /\ [][NextSeq]_vars

\* the chat handlers: getTools and callTool of two tasks overlapping each
\* other and the first load
NextChat ==
  \/ \E p \in Procs : GtSteps(p) \/ CtSteps(p) \/ CcSteps(p)
  \/ \E q \in Tasks : LoadDone(q)
  \/ Env
SpecChat == Init /\ [][NextChat]_vars

\* the configuration list read again after the catalog was built, the DELETE
\* route having taken rows out of the Store.  getTools connects the entries
\* of the Map it walks, so connectClientForUser has no row to look up here.
NextReconcile ==
  \/ \E p \in SeqProcs :
       GtSteps(p) \/ CcCloseDone(p) \/ CcConnectDone(p) \/ LsSteps(p)
  \/ \E q \in Tasks : LoadDone(q)
  \/ \E t \in Tenants, n \in Names : DeleteUserMcpConfig(t, n)
  \/ Env
SpecReconcile == InitLoaded({PlainStore}) /\ [][NextReconcile]_vars

\* the DELETE route's removeServer overlapping the tool calls of the chat
\* handlers, the clients emitting no error
NextRemove ==
  \/ \E p \in Procs : RmSteps(p) \/ CtSteps(p) \/ CcSteps(p)
  \/ \E q \in Tasks : DbStep(q)
  \/ \E h \in 1..MaxHandles : OnClose(h)
SpecRemove == InitLoaded({PlainStore}) /\ [][NextRemove]_vars

\* the same, one operation at a time
NextRemoveSeq ==
  \/ \E p \in SeqProcs : RmSteps(p) \/ CtSteps(p) \/ CcSteps(p)
  \/ \E q \in Tasks : DbStep(q)
  \/ \E h \in 1..MaxHandles : OnClose(h)
SpecRemoveSeq == InitLoaded({PlainStore}) /\ [][NextRemoveSeq]_vars

\* listServers called while the chat handlers call tools; no row is deleted,
\* so listServers has nothing to evict
NextList ==
  \/ \E p \in Procs : LsStart(p) \/ LsFindDone(p) \/ CtSteps(p) \/ CcSteps(p)
  \/ \E q \in Tasks : DbStep(q)
  \/ \E h \in 1..MaxHandles : OnClose(h)
SpecList == InitLoaded({PlainStore}) /\ [][NextList]_vars

\* the chat handlers storing messages, two updates of a chat being handled
\* together; the table with and without its unique index
NextHistory == \E p \in Procs : AmStart(p) \/ AmFindDone(p) \/ AmCreateDone(p)
InitHistory ==
  InitLoadedWith({PlainStore}, {NoHistory, [NoHistory EXCEPT !.unique = FALSE]})
SpecHistory == InitHistory /\ [][NextHistory]_vars

\* the shutdown path: closeAll from the server's close callback and from the
\* timer, overlapping each other and the tool calls
NextShutdown ==
  \/ \E p \in Procs : CtSteps(p) \/ CcSteps(p) \/ CaSteps(p)
  \/ Env
SpecShutdown == InitLoaded({PlainStore}) /\ [][NextShutdown]_vars

\* the process stopped by a signal after getTools has connected clients.
\* What the event loop guarantees is stated as fairness: the timer fires, a
\* closeAll that has no close to wait for returns, and a callback whose
\* closeAll has returned goes on to process.exit.  Nothing makes the web
\* server finish closing, and nothing makes a client's close settle.
NextStop ==
  \/ \E p \in SeqProcs :
       proc.st = "running" /\ (GtSteps(p) \/ CcCloseDone(p) \/ CcConnectDone(p))
  \/ \E reason \in Signals : GracefulStop(reason)
  \/ WebServerClosed
  \/ TimerFired
  \/ \E p \in Procs : proc.st = "stopping" /\ CaDone(p)
  \/ \E p \in Procs : Exit(p)
FairStop ==
  /\ WF_vars(TimerFired)
  /\ \A p \in Procs : WF_vars(proc.st = "stopping" /\ task[p].hs = {} /\ CaDone(p))
  /\ \A p \in Procs : WF_vars(Exit(p))
SpecStop == InitLoaded({PlainStore}) /\ [][NextStop]_vars /\ FairStop

\* the Mini App's requests, one at a time, beside the catalog a chat builds
NextWeb ==
  \/ \E p \in SeqProcs :
       \/ Api(p) \/ UserConfigDone(p)
       \/ AddRmRet(p) \/ AddUpsertDone(p) \/ RmCloseDone(p) \/ RmDeleteDone(p)
       \/ GtSteps(p) \/ CcCloseDone(p) \/ CcConnectDone(p)
  \/ \E q \in Tasks : LoadDone(q)
  \/ Env
SpecWeb == InitLoaded({PlainStore}) /\ [][NextWeb]_vars

\* ------------------------------------------------------------ the claims
HandleIds == 1..Len(handles)
SameKey(h, k) == handles[h].t = handles[k].t /\ handles[h].n = handles[k].n
CcRetPcs == {"gt_cc_ret", "ct_cc_ret"}
CcPcs == {"cc_find", "cc_close", "cc_connect"}

\* C1: overlapping ensureConnected calls on one (tenant, server) are
\* serialized: two connects of the same entry are never in flight together,
\* and no handle that connected in such a race is left open, unclosed and
\* unreferenced by the Registry.
C1Serialized ==
  /\ \A h \in HandleIds, k \in HandleIds :
       (h # k /\ SameKey(h, k)) =>
         ~(handles[h].st = "connecting" /\ handles[k].st = "connecting")
  /\ \A h \in HandleIds :
       ( /\ handles[h].st = "open" /\ handles[h].closes = 0 /\ ~handles[h].evt
         /\ \E k \in HandleIds : SameKey(h, k) /\ handles[k].race )
       => h \in LiveClients

\* C2: no connect is started for an entry that still holds the client of an
\* earlier successful connect (two calls in sequence connect once).
C2OneConnect ==
  \A h \in HandleIds, k \in HandleIds :
    (h # k /\ SameKey(h, k)) => handles[k].over # h

\* C3: connectClientForUser always comes back to its caller; when it comes
\* back with nothing, the entry it worked on holds no client; and a handle is
\* only ever connected over the transport its configuration names.
C3Returns ==
  \A p \in Procs :
    /\ (task[p].pc \in CcPcs /\ task'[p].pc # task[p].pc)
         => task'[p].pc \in CcPcs \cup CcRetPcs
    /\ (task'[p].pc \in CcRetPcs /\ task[p].pc # task'[p].pc /\ task'[p].h = 0)
         => \A i \in MapIds : \A j \in 1..Len(maps'[i]) :
              maps'[i][j].oid = task'[p].oid => maps'[i][j].client = 0
C3DeclaredTransport ==
  \A h \in HandleIds :
    handles[h].kind \in {"stdio", "http"} /\ handles[h].kind = handles[h].ctype
C3NeverRaises == [][C3Returns]_vars /\ []C3DeclaredTransport
C3Witness ==
  \E p \in Procs :
    /\ task[p].pc = "ct_cc_ret" /\ task[p].h = 0 /\ task[p].oid # 0
    /\ store[task[p].t][task[p].n].type = "ws"
    /\ handles = <<>>

\* C4: getTools returns a catalog; every server the tenant had when the
\* catalog was started is tried, whatever happened to the ones before it, and
\* every server that listed its tools has them in the catalog.
LogOf(i) == out.log[i]
C4Isolated ==
  out.op = "gt" =>
    /\ out.res = "ok"
    /\ \A n \in out.live : \E i \in 1..Len(out.log) : LogOf(i)[1] = n
    /\ \A i \in 1..Len(out.log) :
         LogOf(i)[2] = "listed" => \E j \in 1..Len(out.tools) : out.tools[j] = LogOf(i)[1]
C4Witness ==
  /\ out.op = "gt"
  /\ Len(out.log) = 2
  /\ LogOf(1)[2] \in {"unavailable", "listfail"}
  /\ LogOf(2)[2] = "listed"
  /\ out.tools = <<LogOf(2)[1]>>

\* C5: when closeAll completes the Registry is empty, and closeAll has
\* invoked close on every handle the Registry held when it started, also
\* when some of those closes fail.
C5AllClosed ==
  out.op = "ca" =>
    /\ \A t \in Tenants : activeServers[t] = 0
    /\ \A h \in out.live : handles[h].byAll >= 1
C5Witness ==
  /\ out.op = "ca"
  /\ Cardinality(out.live) = 2
  /\ Cardinality(out.hs) = 1
  /\ \E h \in out.live, k \in out.live : handles[h].t # handles[k].t

\* C6: closeAll never invokes close twice on one handle, whether a second
\* call follows the first or overlaps it, and every call completes normally
\* with the Registry empty.
C6Idempotent ==
  /\ \A h \in HandleIds : handles[h].byAll <= 1
  /\ out.op = "ca" => (out.res = "ok" /\ \A t \in Tenants : activeServers[t] = 0)
C6Witness ==
  /\ out.op = "ca" /\ cas = 2
  /\ \E q \in Procs : task[q].pc = "ca_wait"
  /\ \E h \in HandleIds : handles[h].byAll = 1

\* C7: after removeServer(tenant, name, true) has returned for a name the
\* Store had, listServers does not include the name, and a client the entry
\* held has been closed exactly once.
C7Removed ==
  (out.op = "rm" /\ out.res = "ok" /\ out.live # {}) =>
    /\ out.n \notin NamesIn(RowsOf(store, out.t))
    /\ \A h \in out.hs : handles[h].closes = 1

\* C8: addServer with a configuration that lacks its name, its type or the
\* field its transport requires fails with the invalid-configuration error and
\* changes neither the Store nor the Registry nor any connection.
MissingRequired(config) ==
  \/ config.name = ""
  \/ config.type = ""
  \/ config.type = "stdio" /\ config.command = ""
  \/ config.type = "http" /\ config.url = ""
C8Rejected ==
  [][(out'.op = "add" /\ MissingRequired(out'.cfg)) =>
       /\ out'.res = "ConfigInvalid"
       /\ UNCHANGED <<store, activeServers, maps, handles>>]_vars
C8Witness ==
  /\ out.op = "add" /\ out.res = "ConfigInvalid"
  /\ out.cfg.type = "http" /\ out.cfg.url = ""
  /\ \E t \in Tenants : activeServers[t] # 0

\* C9: when the Store write of addServer fails, the Registry holds for the
\* name what it held before the call.
C9RolledBack ==
  (out.op = "add" /\ out.res = "StoreFailure") => EntryView(out.t, out.n) = out.pre

\* C10: every (tenant, name) with an entry in the Registry has a row in the
\* Store.
C10RegistryInStore ==
  \A t \in Tenants, n \in Names :
    (activeServers[t] # 0 /\ Has(maps[activeServers[t]], n)) => store[t][n] # NoRow

\* C11: listServers called right after a successful addServer of the same
\* tenant, and served by the Store, returns for the submitted name exactly the
\* submitted configuration (every field of it), also when the name was stored
\* before.
C11RoundTrip ==
  (out.op = "ls" /\ out.pre # <<>> /\ out.log = <<>>) =>
    /\ \E i \in 1..Len(out.cfgs) : out.cfgs[i] = out.pre[1]
    /\ \A i \in 1..Len(out.cfgs) :
         out.cfgs[i].name = out.pre[1].name => out.cfgs[i] = out.pre[1]
C11Witness ==
  /\ out.op = "ls" /\ out.t = 1 /\ out.log = <<>>
  /\ out.pre = <<WithName("a", HttpJson)>>
  /\ store[1]["b"] = HttpJson
  /\ Len(out.cfgs) = 2

\* C12: the name the catalog gives a tool of a server decodes to that tool
\* and that server, whatever underscores the tool name has, and callTool
\* issues the remote call for the original tool name on a connection of that
\* server.
CharSeqs == UNION {[1..k -> {"a", "_"}] : k \in 0..3}
C12RoundTrip ==
  /\ \A tool \in CharSeqs, server \in {<<"a">>, <<"f", "s">>} :
       LET parts == Split(Encode(tool, server)) IN
       Len(parts) >= 2 /\ ToolOf(parts) = tool /\ ServerOf(parts) = server
  /\ (out.op = "ct" /\ out.res \in {"result", "isError", "ToolCallFailed"}) =>
       /\ out.tools = <<out.pre[1]>>
       /\ out.n = out.pre[2]
       /\ out.hs # {}
       /\ \A h \in out.hs : handles[h].t = out.t /\ handles[h].n = out.pre[2]
C12Witness ==
  out.op = "ct" /\ out.res = "result" /\ out.pre[1] = "l_f" /\ out.pre[2] = "b" /\ out.t = 1

\* C13: callTool with a name that has no second segment fails with the
\* invalid-format error at once: no call with such a name is ever suspended,
\* and the failing call changes neither the Store, nor the Registry, nor a
\* connection, nor does it leave anything pending.
NoUnderscore(cs) == \A i \in 1..Len(cs) : cs[i] # "_"
C13Step ==
  (out'.op = "ct" /\ NoUnderscore(out'.pre[3])) =>
    /\ out'.res = "InvalidToolNameFormat"
    /\ task' = task
    /\ UNCHANGED <<store, activeServers, maps, handles>>
C13NeverStarted ==
  \A p \in Tasks : task[p].op = "ct" => ~NoUnderscore(task[p].pre[3])
C13Rejected == [][C13Step]_vars /\ []C13NeverStarted
C13Witness ==
  /\ out.op = "ct" /\ out.res = "InvalidToolNameFormat"
  /\ \E h \in HandleIds : handles[h].st = "open" /\ h \in LiveClients

\* C14: what the remote call resolves with is what callTool returns, a
\* result with isError set included; callTool fails with the tool-call
\* failure exactly when the remote call rejects, and the failure names the
\* server and the original tool.
C14Propagated ==
  (out.op = "ct" /\ out.log # <<>>) =>
    LET remote == out.log[1][2] IN
    /\ remote \in {"result", "isError"} => out.res = remote
    /\ out.res = "ToolCallFailed" <=> remote = "throws"
    /\ remote = "throws" => (out.n = out.pre[2] /\ out.tools = <<out.pre[1]>>)
C14Witness ==
  out.op = "ct" /\ out.log # <<>> /\ out.log[1][2] = "isError" /\ out.res = "isError"

\* C15: a listServers that has read the Store, the Store being afterwards as
\* it was read, leaves the tenant's Registry with exactly the names of the
\* Store; a step of listServers removes an entry that holds a client only
\* after close has been invoked on the client, and leaves the client of every
\* entry whose name was read where it was.
RegistryNames(t) == IF activeServers[t] = 0 THEN {} ELSE KeysOf(maps[activeServers[t]])
C15Names ==
  (out.op = "ls" /\ out.log = <<>> /\ out.live = NamesIn(RowsOf(store, out.t))) =>
    RegistryNames(out.t) = NamesIn(RowsOf(store, out.t))
C15Step ==
  \A p \in SeqProcs, t \in Tenants, n \in Names :
    ( /\ task[p].op = "ls" /\ task[p].t = t /\ task[p].db # "pending"
      /\ task'[p] # task[p]
      /\ EntryView(t, n) # <<>> ) =>
      /\ (EntryView(t, n)[2] # 0 /\ EntryView(t, n)' = <<>>) =>
            handles'[EntryView(t, n)[2]].closes >= 1
      /\ n \in NamesIn(task[p].snap) =>
            (EntryView(t, n)' # <<>> /\ EntryView(t, n)'[2] = EntryView(t, n)[2])
C11AlwaysReturned ==
  (out.op = "ls" /\ out.pre # <<>>) =>
    \E i \in 1..Len(out.cfgs) : out.cfgs[i] = out.pre[1]

\* C16: an error event or a close event of the handle an entry holds leaves
\* the entry with no client; no handle that has closed is held by an entry;
\* and a handle connectClientForUser returns is one that this very call has
\* just connected.
C16EventStep ==
  out'.op \in {"onerror", "onclose"} =>
    \A h \in out'.hs :
      h \in LiveClients => EntryView(handles[h].t, handles[h].n)'[2] = 0
C16Fresh ==
  \A p \in Procs :
    (task'[p].pc \in CcRetPcs /\ task[p].pc \notin CcRetPcs /\ task'[p].h # 0) =>
      /\ task[p].pc = "cc_connect"
      /\ handles[task'[p].h].st = "connecting"
      /\ ~handles'[task'[p].h].evt
C16NoDeadLive == \A h \in HandleIds : handles[h].evt => h \notin LiveClients
C16Cleared == [][C16EventStep /\ C16Fresh]_vars /\ []C16NoDeadLive
C16Witness ==
  \E h \in HandleIds, k \in HandleIds :
    /\ h # k /\ SameKey(h, k)
    /\ handles[h].evt /\ handles[h].closes = 0
    /\ handles[k].st = "open" /\ handles[k].over = 0 /\ k \in LiveClients
    /\ \E p \in Procs : task[p].pc \in CcRetPcs /\ task[p].h = k

\* C17: while a remote call-tool or list-tools is in flight on a handle, no
\* getTools or callTool has close invoked on that handle.
C17InFlightKept ==
  \A p \in Procs :
    task[p].pc \in {"ct_call", "gt_list"} => handles[task[p].h].closes = 0

\* C18: after SIGINT or SIGTERM the process eventually exits, even if the
\* web server never finishes closing or the close of a connection never
\* settles
C18Exits == (proc.st = "stopping") ~> (proc.st = "exited")

\* the step is a request arriving, and its initData is what Telegram signed
\* for a user
Arrives == proc'.reqs # proc.reqs
Authentic(initData) ==
  /\ initData.given /\ initData.hash = "good"
  /\ initData.user.kind = "object" /\ initData.user.id # 0

\* C19: a POST /api/mcps request with type 'stdio' from a user who is not an
\* administrator is rejected, with 403 when the payload is otherwise well
\* formed and with 400 when it is not, and it causes no Store write, no
\* Registry change and no addServer call; no addServer ever runs with a stdio
\* configuration for such a user and the Store never gets such a row
C19NonAdminStdio ==
  /\ Arrives
  /\ proc'.req.route = "POST /api/mcps" /\ proc'.req.body.type = "stdio"
  /\ Authentic(proc'.req.initData)
  /\ proc'.req.initData.user.id \notin AdminUserIds
C19Step ==
  C19NonAdminStdio =>
    /\ out'.op = "api" /\ out'.res \in {"400", "403"}
    /\ out'.res = "403" <=> SchemaOk(proc'.req.body)
    /\ UNCHANGED <<store, activeServers, maps, handles, task>>
C19NoStdioForUsers ==
  \A t \in Tenants \ AdminUserIds :
    /\ \A p \in Procs : task[p].op = "add" => task[p].cfg.type # "stdio"
                                              \/ task[p].t # t
    /\ \A n \in Names : store[t][n] = NoRow \/ store[t][n].type # "stdio"
C19Rejected == [][C19Step]_vars /\ []C19NoStdioForUsers
C19Witness ==
  /\ out.op = "api" /\ out.res = "403"
  /\ proc.req.route = "POST /api/mcps" /\ proc.req.body.type = "stdio"
  /\ Authentic(proc.req.initData) /\ proc.req.initData.user.id \notin AdminUserIds
\* C19 as stated: every such request is answered 403
C19Always403 == [][C19NonAdminStdio => out'.res = "403"]_vars

\* C20: a request whose initData is missing, fails validation or carries no
\* user id is answered 401 and reaches no handler: it changes neither the
\* Store nor the Registry and starts no operation and no Store request; a
\* request that passes is handled for the user id of its initData, whatever
\* user id the request states elsewhere, and touches no other user's servers
C20Step ==
  Arrives =>
    IF ~Authentic(proc'.req.initData)
      THEN /\ out'.op = "api" /\ out'.res = "401"
           /\ UNCHANGED <<store, activeServers, maps, handles, task>>
      ELSE /\ \A p \in Procs :
                task'[p] # task[p] => task'[p].t = proc'.req.initData.user.id
           /\ out'.op \notin {"api", ""} => out'.t = proc'.req.initData.user.id
           /\ \A t \in Tenants \ {proc'.req.initData.user.id} :
                /\ activeServers'[t] = activeServers[t]
                /\ activeServers[t] # 0 =>
                     maps'[activeServers[t]] = maps[activeServers[t]]
C20Gated == [][C20Step]_vars
C20Witness ==
  /\ out.op = "api" /\ out.res = "401"
  /\ proc.req.initData.given /\ proc.req.initData.hash = "bad"
  /\ proc.req.initData.user.id \in Tenants

\* environments to overlay: every choice of keys, inherited and configured
EnvOver(keys, v) == {{<<k, v>> : k \in ks} : ks \in SUBSET keys}
HostEnvs == EnvOver({"KEY", "PATH"}, "host") \cup {ProcessEnv}
ConfigEnvs == EnvOver({"KEY", "HOME"}, "v")
EnvValue(env, k) == (CHOOSE kv \in env : kv[1] = k)[2]
\* env is base overlaid with configEnv
Overlays(env, base, configEnv) ==
  /\ EnvKeysOf(env) = EnvKeysOf(base) \cup EnvKeysOf(configEnv)
  /\ \A kv \in env :
       kv[2] = IF kv[1] \in EnvKeysOf(configEnv) THEN EnvValue(configEnv, kv[1])
               ELSE EnvValue(base, kv[1])
  /\ \A kv \in env, kw \in env : kv[1] = kw[1] => kv = kw

\* C21: the environment given to a stdio transport is the inherited
\* environment overlaid with the config's env: the configured value where the
\* config defines the key, the inherited value otherwise, no inherited key
\* dropped; every stdio client a connect is started on was given that
C21Overlaid ==
  /\ \A base \in HostEnvs, configEnv \in ConfigEnvs :
       Overlays(StdioEnv(base, configEnv), base, configEnv)
  /\ \A p \in Procs :
       task[p].pc = "cc_connect" /\ task[p].ecfg.type = "stdio" =>
         Overlays(handles[task[p].h].env, ProcessEnv, task[p].ecfg.env)
C21Witness ==
  \E p \in Procs :
    /\ task[p].pc = "cc_connect" /\ task[p].ecfg.type = "stdio"
    /\ <<"KEY", "v">> \in handles[task[p].h].env
    /\ <<"PATH", "/bin">> \in handles[task[p].h].env
    /\ <<"KEY", "host">> \in ProcessEnv

\* schema types: the six the target has, and others (a missing type is "")
NamedTypes == {"object", "array", "string", "number", "integer", "boolean"}
SchemaTypes == NamedTypes \cup {"null", "any", ""}
GeminiTypeOf(type) ==
  IF type = "object" THEN "OBJECT" ELSE IF type = "array" THEN "ARRAY"
  ELSE IF type = "number" THEN "NUMBER" ELSE IF type = "integer" THEN "INTEGER"
  ELSE IF type = "boolean" THEN "BOOLEAN" ELSE "STRING"
SubSchemaOf(type, enum) == [type |-> type, description |-> "", enum |-> enum]
\* a schema of type top with one property and with items, both of type sub
SchemaOf(top, sub, required, enum) ==
  [type |-> top, description |-> "", required |-> required, enum |-> enum,
   properties |-> << <<[key |-> "p", schema |-> <<SubSchemaOf(sub, <<>>)>>]>> >>,
   items |-> <<SubSchemaOf(sub, <<>>)>>]
ToolWith(schema) == [name |-> <<"t">>, description |-> "", inputSchema |-> <<schema>>]
DeclNamed(decls, name) == {i \in 1..Len(decls) : decls[i].name = name}

\* C22: object, array, string, number, integer and boolean map to the type
\* of the same name and every other or missing type maps to string, nothing
\* raised, at the top level, in a property and in array items; the catalog
\* getTools returns has its types mapped so
C22Total ==
  \A top \in SchemaTypes, sub \in SchemaTypes :
    LET decl == MapMcpToolToGeminiFunctionDeclaration(
                  ToolWith(SchemaOf(top, sub, <<>>, <<>>)), "a")
        par == decl.parameters IN
    /\ decl.name = "t_a"
    /\ par.type = GeminiTypeOf(top)
    /\ top = "object" => par.properties[1][1].value.type = GeminiTypeOf(sub)
    /\ top = "array" => par.items[1].type = GeminiTypeOf(sub)
C22Catalog ==
  out.op = "gt" =>
    /\ \A i \in DeclNamed(out.decls, "s_a") :
         /\ out.decls[i].parameters.type = "OBJECT"
         /\ out.decls[i].parameters.properties[1][1].value.type = "STRING"
         /\ out.decls[i].parameters.properties[1][2].value.type = "STRING"
    /\ \A i \in DeclNamed(out.decls, "l_f_b") :
         /\ out.decls[i].parameters.type = "ARRAY"
         /\ out.decls[i].parameters.items[1].type = "INTEGER"
C22Translated == C22Total /\ C22Catalog
C22Witness ==
  /\ out.op = "gt"
  /\ \E i \in DeclNamed(out.decls, "s_a") :
       /\ SearchSchema.properties[1][2].schema[1].type = "null"
       /\ out.decls[i].parameters.properties[1][2].value.type = "STRING"
  /\ DeclNamed(out.decls, "l_f_b") # {}

\* required lists and enum lists a schema may have: none, empty, or values
RequiredLists == {<<>>, << <<>> >>, << <<"q">> >>, << <<"q", "k">> >>, << <<"k", "q">> >>}
EnumLists ==
  {<<>>, << <<>> >>, << <<JsonString("y"), JsonString("x")>> >>,
   << <<JsonNumber(2), JsonString("x")>> >>, << <<JsonNumber(1)>> >>}
Lacking(list) == list = <<>> \/ list[1] = <<>>
AllStrings(list) == \A i \in 1..Len(list[1]) : list[1][i].kind = "string"

\* C23: required is carried through with the same values in the same order
\* and enum with the string form of each value in the same order (the same
\* values when they are strings); each is omitted, never emitted empty, when
\* the schema lacks it or has it empty; the catalog getTools returns has them
\* so
C23Pure ==
  \A top \in {"object", "string"}, required \in RequiredLists, enum \in EnumLists :
    LET par == MapMcpToolToGeminiFunctionDeclaration(
                 ToolWith(SchemaOf(top, "string", required, enum)), "a").parameters IN
    /\ par.required = IF Lacking(required) THEN <<>> ELSE required
    /\ Lacking(enum) => par.enum = <<>>
    /\ ~Lacking(enum) =>
         /\ par.enum # <<>> /\ Len(par.enum[1]) = Len(enum[1])
         /\ \A i \in 1..Len(enum[1]) :
              par.enum[1][i] = JsonString(JsString(enum[1][i]))
         /\ AllStrings(enum) => par.enum = enum
C23Catalog ==
  out.op = "gt" =>
    /\ \A i \in DeclNamed(out.decls, "s_a") :
         /\ out.decls[i].parameters.required = SearchSchema.required
         /\ out.decls[i].parameters.enum = <<>>
    /\ \A i \in DeclNamed(out.decls, "l_f_b") :
         /\ out.decls[i].parameters.required = <<>>
         /\ out.decls[i].parameters.enum = << <<JsonString("2"), JsonString("x")>> >>
C23Carried == C23Pure /\ C23Catalog
C23Witness ==
  /\ out.op = "gt"
  /\ \E i \in DeclNamed(out.decls, "s_a") : out.decls[i].parameters.required = << <<"q">> >>
  /\ \E i \in DeclNamed(out.decls, "l_f_b") :
       /\ out.decls[i].parameters.required = <<>>
       /\ Len(out.decls[i].parameters.enum[1]) = 2
\* C23 as stated: the enum of the schema is in the declaration verbatim
C23Verbatim ==
  out.op = "gt" =>
    \A i \in DeclNamed(out.decls, "l_f_b") :
      out.decls[i].parameters.enum = ListSchema.enum

\* tools a server may list: sound ones, one without an input schema and one
\* whose object schema has a null property
NullPropertySchema ==
  [SearchSchema EXCEPT !.properties = << <<[key |-> "q", schema |-> <<>>]>> >>]
ToolSamples ==
  {ToolWith(SearchSchema), ToolWith(ListSchema), ToolWith(NullPropertySchema),
   [name |-> <<"x">>, description |-> "", inputSchema |-> <<>>]}
ToolLists == UNION {[1..k -> ToolSamples] : k \in 0..3}
Unmappable(tool) ==
  tool.inputSchema = <<>> \/ tool.inputSchema[1] = NullPropertySchema
BrokenEntry(decl, tool, serverName) ==
  /\ decl.name = Str(tool.name) \o "_" \o serverName \o "_mapping_error"
  /\ decl.description = "Error mapping tool: " \o Str(tool.name)

\* C24: the tools one server lists become one catalog entry each, in order,
\* and nothing is raised: a tool whose translation throws becomes a broken-
\* tool entry (suffixed name, the error in the description) and every other
\* tool of the list is translated as it would be alone; the catalog getTools
\* returns holds server a's sound tool and its broken tool so
C24Pure ==
  \A tools \in ToolLists, serverName \in Names :
    LET decls == MapTools(tools, serverName) IN
    /\ Len(decls) = Len(tools)
    /\ \A i \in 1..Len(tools) :
         /\ decls[i] = MapTools(<<tools[i]>>, serverName)[1]
         /\ Unmappable(tools[i]) <=> BrokenEntry(decls[i], tools[i], serverName)
         /\ ~Unmappable(tools[i]) =>
              /\ decls[i].name = Str(tools[i].name) \o "_" \o serverName
              /\ decls[i].parameters.type = GeminiTypeOf(tools[i].inputSchema[1].type)
C24Catalog ==
  out.op = "gt" =>
    \A i \in 1..Len(out.tools) :
      out.tools[i] = "a" =>
        \E j \in 1..(Len(out.decls) - 1) :
          /\ out.decls[j] = MapTools(<<ListTools("a")[1]>>, "a")[1]
          /\ out.decls[j].name = "s_a"
          /\ BrokenEntry(out.decls[j + 1], ListTools("a")[2], "a")
C24OnePerTool ==
  out.op = "gt" =>
    Len(out.decls) = Len(SelectSeq(out.tools, LAMBDA n : n = "a")) * 2
                     + Len(SelectSeq(out.tools, LAMBDA n : n = "b"))
C24EntryPerTool == C24Pure /\ C24Catalog /\ C24OnePerTool
C24Witness ==
  /\ out.op = "gt" /\ out.tools = <<"a", "b">>
  /\ Len(out.decls) = 3
  /\ out.decls[1].name = "s_a"
  /\ out.decls[2].name = "x_a_mapping_error"
  /\ out.decls[3].name = "l_f_b"

\* the entry object with this oid holds no client
Cleared(oid) ==
  \A i \in MapIds : \A j \in 1..Len(maps[i]) :
    maps[i][j].oid = oid => maps[i][j].client = 0

\* C25: connectClientForUser, come upon an entry that holds a client, invokes
\* close on that client; when the close has settled, whether it failed or
\* not, it clears the entry and starts a connect on a new client; and the
\* client it returns is never the one the entry held before the call
C25Dispose ==
  \A p \in Procs :
    (task'[p] # task[p] /\ task[p].pc \notin CcPcs
     /\ task'[p].pc \in CcPcs \cup CcRetPcs) =>
      \A t \in Tenants, n \in Names :
        (task'[p].t = t /\ task'[p].n = n /\ EntryView(t, n) # <<>>
         /\ EntryView(t, n)[2] # 0) =>
          /\ task'[p].pc = "cc_close"
          /\ task'[p].over = EntryView(t, n)[2]
          /\ handles'[EntryView(t, n)[2]].closes = handles[EntryView(t, n)[2]].closes + 1
C25Rebuild ==
  \A p \in Procs :
    (task[p].pc = "cc_close" /\ task'[p].pc # "cc_close") =>
      /\ out'.op = "staleclose" /\ out'.p = p /\ out'.res \in {"closed", "failed"}
      /\ Cleared(task[p].oid)'
      /\ task'[p].pc = "cc_connect"
      /\ Len(handles') = Len(handles) + 1 /\ task'[p].h = Len(handles')
      /\ handles'[task'[p].h].st = "connecting"
      /\ handles'[task'[p].h].over = task[p].over
C25NotTheOld ==
  \A p \in Procs :
    (task[p].pc \in CcRetPcs /\ task[p].h # 0) =>
      /\ handles[task[p].h].over # task[p].h
      /\ handles[task[p].h].over # 0 => handles[handles[task[p].h].over].closes > 0
ClientOf(t, n) == IF EntryView(t, n) = <<>> THEN 0 ELSE EntryView(t, n)[2]

\* C26: a client an entry holds has completed its connect successfully; a
\* client is stored on an entry only in the step its connect succeeds, and a
\* name the Registry takes in starts without a client
C26Stored ==
  \A i \in MapIds : \A j \in 1..Len(maps[i]) :
    maps[i][j].client # 0 =>
      /\ maps[i][j].client \in HandleIds
      /\ handles[maps[i][j].client].st = "open"
C26Step ==
  \A t \in Tenants, n \in Names :
    /\ (ClientOf(t, n)' # 0 /\ ClientOf(t, n)' # ClientOf(t, n)) =>
         /\ handles[ClientOf(t, n)'].st = "connecting"
         /\ handles'[ClientOf(t, n)'].st = "open"
    /\ (EntryView(t, n) = <<>> /\ EntryView(t, n)' # <<>>) =>
         \/ ClientOf(t, n)' = 0
         \/ \E p \in Procs : task[p].op = "ls"
C26Connected == [][C26Step]_vars /\ []C26Stored
C26Witness ==
  \E t \in Tenants, n \in Names, h \in HandleIds :
    /\ ClientOf(t, n) = 0 /\ EntryView(t, n) # <<>>
    /\ handles[h].t = t /\ handles[h].n = n /\ handles[h].st = "failed"
    /\ \E k \in HandleIds : handles[k].st = "open" /\ k \in LiveClients

\* C27: when addServer returns successfully the Registry holds for the name
\* an entry with the submitted configuration and no client, the Store holds
\* the submitted configuration, close has been invoked on the client the
\* replaced entry held, and no step of addServer creates a handle (it makes
\* no connect attempt).
C27Return ==
  (out'.op = "add" /\ out'.res = "ok") =>
    /\ \E t \in Tenants, n \in Names :
         /\ t = out'.t /\ n = out'.n
         /\ EntryView(t, n)' = <<out'.cfg, 0>>
         /\ store'[t][n] = Stringify(out'.cfg)
    /\ (out'.pre # <<>> /\ out'.pre[2] # 0) =>
         /\ out'.hs = {out'.pre[2]}
         /\ handles'[out'.pre[2]].closes >= 1
         /\ out'.pre[2] \notin LiveClients'
C27NoConnect ==
  \A p \in Procs :
    (task'[p] # task[p] /\ "add" \in {task[p].op, task'[p].op}) =>
      /\ Len(handles') = Len(handles)
      /\ \A h \in HandleIds : handles'[h].st = handles[h].st
Replacing(p) == task[p].op = "add" /\ task[p].pre # <<>>
C28Held ==
  \A p \in Procs : Replacing(p) => store[task[p].t][task[p].n] # NoRow
C28Step ==
  \A t \in Tenants, n \in Names :
    store'[t][n] # store[t][n] =>
      \E p \in Procs :
        /\ task[p].t = t /\ task[p].n = n /\ task[p].db = "pending"
        /\ \/ /\ task[p].op = "add" /\ task[p].pc = "add_upsert"
              /\ store'[t][n] = Stringify(task[p].cfg)
           \/ /\ task[p].op = "rm" /\ task[p].pc = "rm_delete" /\ task[p].flag
              /\ store'[t][n] = NoRow
C28Return ==
  (out'.op = "add" /\ out'.pre # <<>>) =>
    \E t \in Tenants, n \in Names :
      /\ t = out'.t /\ n = out'.n
      /\ store'[t][n] # NoRow
      /\ out'.res = "ok" => store'[t][n] = Stringify(out'.cfg)
C28RowKept == [][C28Step /\ C28Return]_vars /\ []C28Held
C28Witness ==
  \E p \in Procs :
    /\ Replacing(p) /\ task[p].pc = "add_rm_close"
    /\ EntryView(task[p].t, task[p].n) # <<>>
    /\ store[task[p].t][task[p].n] \notin {NoRow, Stringify(task[p].cfg)}

\* C29: when the close of the entry's client fails during removeServer the
\* entry is deleted from the Registry all the same and the Store delete is
\* requested; a removeServer that got as far as the Store delete returns
\* having deleted the row, or raises because that delete failed, and
\* removeServer raises for no other reason.
C29CloseStep ==
  \A p \in Procs, t \in Tenants, n \in Names :
    (out'.op = "rmclose" /\ out'.p = p /\ out'.t = t /\ out'.n = n) =>
      /\ EntryView(t, n) # <<>>
      /\ EntryView(t, n)' = <<>>
      /\ task[p].op = "rm" =>
           /\ task'[p].pc = "rm_delete" /\ task'[p].db = "pending" /\ task'[p].flag
           /\ task'[p].t = t /\ task'[p].n = n
      /\ task[p].op = "add" => task'[p].pc = "add_rm_ret"
C29Return ==
  \A p \in Procs :
    (out'.op = "rm" /\ out'.p = p) =>
      /\ out'.res \in {"ok", "StoreFailure"}
      /\ out'.res = "StoreFailure" <=> (task[p].pc = "rm_delete" /\ task[p].db = "fail")
      /\ (task[p].pc = "rm_delete" /\ out'.res = "ok") =>
           \E t \in Tenants, n \in Names :
             /\ t = out'.t /\ n = out'.n
             /\ store'[t][n] = NoRow /\ EntryView(t, n)' = <<>>
C29Removed == [][C29CloseStep /\ C29Return]_vars
C29Witness ==
  \E p \in Procs :
    /\ out.op = "rmclose" /\ out.res = "failed" /\ out.p = p
    /\ task[p].op = "rm" /\ task[p].pc = "rm_delete"
    /\ EntryView(out.t, out.n) = <<>>
    /\ store[out.t][out.n] # NoRow

\* C30: connectClientForUser starts a connect only for a name whose
\* configuration the Registry holds, either cached before the step or adopted
\* in that step, with no client, from a row the Store has served; when the
\* Store read fails or finds no row it returns no client, starts no connect
\* and leaves the Registry without an entry for the name.
Adopting(p) ==
  task[p].pc = "cc_find" /\ task[p].db = "ok" /\ task[p].snap # <<>>
C30Attempt ==
  Len(handles') > Len(handles) =>
    \E p \in Procs, t \in Tenants, n \in Names :
      /\ task'[p].pc = "cc_connect" /\ task'[p].h = Len(handles')
      /\ task'[p].t = t /\ task'[p].n = n
      /\ handles'[Len(handles')].t = t /\ handles'[Len(handles')].n = n
      /\ EntryView(t, n)' # <<>>
      /\ handles'[Len(handles')].kind = BuildTransport(EntryView(t, n)'[1])
      /\ \/ EntryView(t, n) # <<>> /\ EntryView(t, n)'[1] = EntryView(t, n)[1]
         \/ /\ EntryView(t, n) = <<>> /\ Adopting(p)
            /\ EntryView(t, n)' = <<ParseRow(n, store[t][n]), 0>>
C30Miss ==
  \A p \in Procs, t \in Tenants, n \in Names :
    (task[p].pc = "cc_find" /\ task'[p].pc # "cc_find" /\ ~Adopting(p)
       /\ task[p].t = t /\ task[p].n = n) =>
      /\ task'[p].pc \in CcRetPcs /\ task'[p].h = 0
      /\ handles' = handles
      /\ EntryView(t, n) = <<>> /\ EntryView(t, n)' = <<>>
      /\ \A i \in MapIds : ~Has(maps'[i], n) \/ Has(maps[i], n)
C30Known == [][C30Attempt /\ C30Miss]_vars
C30Witness ==
  \E p \in Procs :
    /\ task[p].pc = "ct_cc_ret" /\ task[p].h = 0
    /\ store[task[p].t][task[p].n] # NoRow
    /\ ~InvalidFields(ParseRow(task[p].n, store[task[p].t][task[p].n]))
    /\ EntryView(task[p].t, task[p].n) = <<>>
    /\ handles = <<>>

\* C31: a getTools that finds the tenant's Map empty reloads the Store; when
\* the reload is served, connectClientForUser has been run for every valid
\* row of the tenant and the catalog holds, in order, the declarations of
\* every such server that connected and listed.
Reloaded(o) == o.op = "gt" /\ o.pre # <<>> /\ o.pre[1] = "reload"
ValidRows(t) == {n \in Names : store[t][n] # NoRow /\ ~InvalidFields(ParseRow(n, store[t][n]))}
Tried(o) == {o.log[i][1] : i \in 1..Len(o.log)}
RECURSIVE DeclsOf(_)
DeclsOf(names) ==
  IF names = <<>> THEN <<>>
  ELSE MapTools(ListTools(Head(names)), Head(names)) \o DeclsOf(Tail(names))
C31Served ==
  (Reloaded(out) /\ out.pre[2] = "ok") =>
    /\ Tried(out) = ValidRows(out.t)
    /\ \A i \in 1..Len(out.log) :
         out.log[i][2] = "listed" <=> \E j \in 1..Len(out.tools) : out.tools[j] = out.log[i][1]
    /\ out.decls = DeclsOf(out.tools)
\* C31 as stated: the reloading getTools returns an empty catalog only if the
\* Store has no configuration of the tenant or none of them is reachable.
C31EmptyOnlyIfNone ==
  (Reloaded(out) /\ out.decls = <<>>) =>
    \A n \in ValidRows(out.t) :
      \E i \in 1..Len(out.log) :
        out.log[i][1] = n /\ out.log[i][2] \in {"unavailable", "listfail"}
C31Witness ==
  /\ Reloaded(out) /\ out.pre[2] = "ok" /\ out.t = 1
  /\ out.log = <<<<"a", "listed">>, <<"b", "unavailable">>>>
  /\ Len(out.decls) = 2

\* C32: no entry of any Map holds a handle that closeAll has invoked close
\* on: the step of closeAll that invokes the close also clears the entry, so
\* a caller running while closeAll waits finds no client on it.
HeldBy(h) == {i \in MapIds : \E j \in 1..Len(maps[i]) : maps[i][j].client = h}
C32NotHeld == \A h \in HandleIds : handles[h].byAll > 0 => HeldBy(h) = {}
C32Step ==
  \A h \in HandleIds :
    handles'[h].byAll > handles[h].byAll =>
      /\ HeldBy(h) # {}
      /\ HeldBy(h)' = {}
C32Cleared == [][C32Step]_vars /\ []C32NotHeld
C32Witness ==
  \E p \in Procs, q \in Procs, h \in HandleIds :
    /\ task[p].pc = "ca_wait" /\ h \in task[p].hs /\ handles[h].byAll = 1
    /\ task[q].op = "ct" /\ task[q].pc = "cc_connect"
    /\ SameKey(h, task[q].h) /\ handles[task[q].h].over = 0
    /\ EntryView(handles[h].t, handles[h].n) # <<>>
    /\ EntryView(handles[h].t, handles[h].n)[2] = 0

\* C33: with one operation at a time, whenever no operation is running every
\* handle that connected, that close was never invoked on and that has not
\* closed is the client of exactly one entry of the Registry.
Quiet == \A p \in Procs : task[p].pc = "idle"
Connected(h) == handles[h].st = "open" /\ handles[h].closes = 0 /\ ~handles[h].evt
HoldersOf(h) ==
  {<<t, j>> \in Tenants \X (1..MaxOids) :
     /\ activeServers[t] # 0 /\ j <= Len(maps[activeServers[t]])
     /\ maps[activeServers[t]][j].client = h}
C33NoLeak ==
  Quiet => \A h \in HandleIds : Connected(h) => Cardinality(HoldersOf(h)) = 1

\* C34: an operation called for tenant A changes neither the configuration
\* nor the client of an entry another tenant has in the Registry, and invokes
\* close on no handle of another tenant.
ActsFor(t) ==
  \E p \in Procs :
    /\ task[p].op \in {"gt", "ct", "add", "rm", "ls"} \/ task'[p].op \in {"gt", "ct", "add", "rm", "ls"}
    /\ task'[p] # task[p]
    /\ t \in {task[p].t, task'[p].t}
C34Step ==
  \A a \in Tenants, b \in Tenants :
    (a # b /\ ActsFor(a) /\ ~ActsFor(b)) =>
      /\ \A n \in Names : EntryView(b, n) # <<>> => EntryView(b, n)' = EntryView(b, n)
      /\ \A h \in HandleIds : handles[h].t = b => handles'[h].closes = handles[h].closes
C34Isolated == [][C34Step]_vars

\* C35: an error or close event of a handle clears the client of an entry
\* only when the entry's client is the handle that emitted the event.
C35OwnHandle ==
  \A h \in HandleIds :
    (out'.op \in {"onerror", "onclose"} /\ out'.hs = {h}) =>
      \A t \in Tenants, n \in Names :
        (ClientOf(t, n) # 0 /\ ClientOf(t, n)' = 0) => ClientOf(t, n) = h
C35Listener == [][C35OwnHandle]_vars

\* C36: close is invoked at most once on any handle, whatever the
\* interleaving of the operations on its (tenant, name).
C36ClosedOnce == \A h \in HandleIds : handles[h].closes <= 1

\* C37: once removeServer(tenant, name, true) and the tool calls it
\* overlapped have all completed, the row of the name being deleted, the
\* Registry holds no entry for the name and no connection to that server
\* remains open.
StillOpen(h) == handles[h].st = "open" /\ handles[h].closes = 0 /\ ~handles[h].evt
C37Gone ==
  \A t \in Tenants, n \in Names :
    (Quiet /\ PlainStore[t][n] # NoRow /\ store[t][n] = NoRow) =>
      /\ EntryView(t, n) = <<>>
      /\ \A h \in HandleIds : (handles[h].t = t /\ handles[h].n = n) => ~StillOpen(h)

\* C38: a client connectClientForUser has connected becomes, in the step
\* that stores it, the client of the entry the Registry holds for the name,
\* also when listServers has run while the connect was in flight.
C38Attached ==
  \A p \in Procs, t \in Tenants, n \in Names :
    ( /\ task[p].pc = "cc_connect" /\ task'[p].pc \in CcRetPcs /\ task'[p].h # 0
      /\ task[p].t = t /\ task[p].n = n
      /\ EntryView(t, n)' # <<>> ) =>
      ClientOf(t, n)' = task'[p].h
C38Kept == [][C38Attached]_vars

\* C39: for a request whose initData is valid the middleware passes control
\* on exactly once.
C39NextOnce ==
  (proc.reqs > 0 /\ ValidateTelegramInitData(proc.req.initData).status = "next") =>
    proc.nexts = 1

\* C40: every addMessage call succeeds, and the message indices stored for a
\* chat are pairwise distinct and contiguous from 0, however the calls on
\* the chat interleave.
RowsOfChat(chatId) ==
  {i \in 1..Len(chatHistory.rows) : chatHistory.rows[i].chatId = chatId}
C40Ordered ==
  /\ \A p \in Procs : chatHistory.calls[p].res \in {"", "ok"}
  /\ \A chatId \in Chats :
       /\ \A i \in RowsOfChat(chatId), j \in RowsOfChat(chatId) :
            i # j => chatHistory.rows[i].messageIndex # chatHistory.rows[j].messageIndex
       /\ IndicesOf(chatHistory.rows, chatId) = 0..(Cardinality(RowsOfChat(chatId)) - 1)

====
